---- MODULE Spec2Model ----
(***************************************************************************)
(* A model of zbra-core: the logical/striped data model, validation, the   *)
(* integer compression pipeline and the binary container.                  *)
(*                                                                         *)
(* 64-bit machine words (i64 / u64) are sequences of WordBits bits, least  *)
(* significant bit first, so that wrapping arithmetic, shifts and masks    *)
(* are computed at the width the code computes them.  Bytes are integers   *)
(* 0..255 and byte buffers are sequences of bytes.                         *)
(***************************************************************************)
EXTENDS Integers, Sequences, FiniteSets, TLC

VARIABLES pc, overflow_checks, values, raw, algorithm, coded, decoded,
          schema, logical, verdict, fault

vars == <<pc, overflow_checks, values, raw, algorithm, coded, decoded,
          schema, logical, verdict, fault>>

\* The variables of the integer and byte coders, and those of validation.
codecVars == <<values, raw, algorithm, coded, decoded>>

validationVars == <<schema, logical, verdict>>

(***************************************************************************)
(* Bounds of the model.                                                    *)
(***************************************************************************)
MaxLen == 3

MaxRun == 26

MaxFields == 2

MaxRows == 2

(***************************************************************************)
(* Results: Rust's Result<T, E>.                                           *)
(***************************************************************************)
Ok(v) == [ok |-> TRUE, val |-> v]

Err(k, m) == [ok |-> FALSE, err |-> k, msg |-> m]

None == <<>>

(***************************************************************************)
(* Machine words.                                                          *)
(***************************************************************************)
WordBits == 64

ByteBits == 8

Pow2(n) == 2 ^ n

\* The word of a small non-negative integer (n < 2^31).
W(n) == [i \in 1..WordBits |-> IF i <= 31 THEN (n \div Pow2(i - 1)) % 2 ELSE 0]

ZeroWord == [i \in 1..WordBits |-> 0]

OnesWord == [i \in 1..WordBits |-> 1]

\* i64::MIN: only the sign bit set.  i64::MAX: every bit but the sign bit.
I64Min == [i \in 1..WordBits |-> IF i = WordBits THEN 1 ELSE 0]

I64Max == [i \in 1..WordBits |-> IF i = WordBits THEN 0 ELSE 1]

Xor(a, b) == [i \in 1..WordBits |-> (a[i] + b[i]) % 2]

And(a, b) == [i \in 1..WordBits |-> a[i] * b[i]]

Or(a, b) == [i \in 1..WordBits |-> IF a[i] + b[i] > 0 THEN 1 ELSE 0]

Not(a) == [i \in 1..WordBits |-> 1 - a[i]]

\* a << k and a >> k (logical) on u64, 0 <= k < WordBits; bits shifted out are lost.
Shl(a, k) == [i \in 1..WordBits |-> IF i - k >= 1 THEN a[i - k] ELSE 0]

Shr(a, k) == [i \in 1..WordBits |-> IF i + k <= WordBits THEN a[i + k] ELSE 0]

\* a >> k on i64: arithmetic, the sign bit is replicated.
Sar(a, k) == [i \in 1..WordBits |-> IF i + k <= WordBits THEN a[i + k] ELSE a[WordBits]]

\* The byte of a word that starts at bit lo, and the word's bits lo..lo+n-1,
\* as integers (n a multiple of ByteBits, the value below 2^31).
Byte(a, lo) ==
    a[lo] + 2 * a[lo + 1] + 4 * a[lo + 2] + 8 * a[lo + 3]
        + 16 * a[lo + 4] + 32 * a[lo + 5] + 64 * a[lo + 6] + 128 * a[lo + 7]

RECURSIVE BitsToInt(_, _, _)
BitsToInt(a, lo, n) ==
    IF n = 0 THEN 0 ELSE Byte(a, lo) + 256 * BitsToInt(a, lo + ByteBits, n - ByteBits)

\* `w as u8`: the low byte of a word as an integer 0..255.
LowByte(a) == Byte(a, 1)

\* u64::to_le_bytes / i64::to_le_bytes and from_le_bytes.
to_le_bytes(a) == [k \in 1..(WordBits \div ByteBits) |-> Byte(a, ByteBits * (k - 1) + 1)]

from_le_bytes(bs) ==
    [i \in 1..WordBits |->
        (bs[((i - 1) \div ByteBits) + 1] \div Pow2((i - 1) % ByteBits)) % 2]

\* Addition modulo 2^64, a byte at a time from the lowest with carry c.
RECURSIVE AddBytes(_, _, _, _)
AddBytes(xs, ys, k, c) ==
    IF k > Len(xs) THEN <<>>
    ELSE <<(xs[k] + ys[k] + c) % 256>>
             \o AddBytes(xs, ys, k + 1, (xs[k] + ys[k] + c) \div 256)

\* i64::wrapping_add, i64::wrapping_sub, and unary minus (two's complement).
wrapping_add(a, b) == from_le_bytes(AddBytes(to_le_bytes(a), to_le_bytes(b), 1, 0))

wrapping_sub(a, b) == from_le_bytes(AddBytes(to_le_bytes(a), to_le_bytes(Not(b)), 1, 1))

Neg(a) == wrapping_sub(ZeroWord, a)

IsNeg(a) == a[WordBits] = 1

\* Unsigned a < b: decided by the highest bit where they differ.
ULt(a, b) ==
    \E i \in 1..WordBits : a[i] < b[i] /\ \A k \in (i + 1)..WordBits : a[k] = b[k]

\* Signed a < b (i64's Ord).
SLt(a, b) == IF a[WordBits] # b[WordBits] THEN a[WordBits] = 1 ELSE ULt(a, b)

SLe(a, b) == a = b \/ SLt(a, b)

\* i64 division by 2: Rust's `/` truncates toward zero.
Div2(a) == IF IsNeg(a) THEN Sar(wrapping_add(a, And(a, W(1))), 1) ELSE Sar(a, 1)

\* u64::leading_zeros: the bits above the highest one set.
leading_zeros(a) ==
    IF a = ZeroWord THEN WordBits
    ELSE WordBits - (CHOOSE i \in 1..WordBits :
                         a[i] = 1 /\ \A k \in (i + 1)..WordBits : a[k] = 0)

\* u32::to_le_bytes / from_le_bytes for lengths and counts (below 2^31 here).
u32_to_le_bytes(n) ==
    <<n % 256, (n \div 256) % 256, (n \div 65536) % 256, (n \div 16777216) % 256>>

u32_from_le_bytes(bs) == bs[1] + 256 * bs[2] + 65536 * bs[3] + 16777216 * bs[4]

(***************************************************************************)
(* compression.rs: frame of reference, zig-zag, BP64, the integer pipeline *)
(***************************************************************************)
RECURSIVE Insert(_, _)
Insert(s, x) ==
    IF s = <<>> THEN <<x>>
    ELSE IF SLe(x, s[1]) THEN <<x>> \o s
    ELSE <<s[1]>> \o Insert(Tail(s), x)

\* Vec<i64>::sort.
RECURSIVE sort(_)
sort(s) == IF s = <<>> THEN <<>> ELSE Insert(sort(Tail(s)), s[1])

frame_of_reference_encode(vs) ==
    IF vs = <<>> THEN [midpoint |-> ZeroWord, deltas |-> <<>>]
    ELSE LET sorted == sort(vs)
             n == Len(sorted)
             midpoint ==
                 IF n % 2 = 0
                 THEN LET a == sorted[n \div 2]
                          b == sorted[(n \div 2) + 1]
                      IN  wrapping_add(a, Div2(wrapping_sub(b, a)))
                 ELSE sorted[(n \div 2) + 1]
         IN  [midpoint |-> midpoint,
              deltas |-> [i \in 1..Len(vs) |-> wrapping_sub(vs[i], midpoint)]]

frame_of_reference_decode_swapped(midpoint, deltas) ==
    [i \in 1..Len(deltas) |-> wrapping_sub(deltas[i], midpoint)]

frame_of_reference_decode(midpoint, deltas) ==
    [i \in 1..Len(deltas) |-> wrapping_add(midpoint, deltas[i])]

zig_zag_encode_one(n) == Xor(Shl(n, 1), Sar(n, WordBits - 1))

zig_zag_encode(vs) == [i \in 1..Len(vs) |-> zig_zag_encode_one(vs[i])]

zig_zag_decode_one_no_sign(n) == Xor(Shr(n, 1), And(n, W(1)))

zig_zag_decode_one(n) == Xor(Shr(n, 1), Neg(And(n, W(1))))

zig_zag_decode(vs) == [i \in 1..Len(vs) |-> zig_zag_decode_one(vs[i])]

\* values.iter().max() on u64.
RECURSIVE UMax(_)
UMax(vs) ==
    IF Len(vs) = 1 THEN vs[1]
    ELSE LET m == UMax(Tail(vs)) IN IF ULt(vs[1], m) THEN m ELSE vs[1]

\* At this bit width and above bp64 stores every value as 8 little-endian bytes.
FastPathBits == 32

bit_width_of_short(vs) ==
    LET max_value == UMax(vs)
    IN  IF max_value = ZeroWord THEN 1 ELSE WordBits - leading_zeros(max_value) - 1

bit_width_of(vs) ==
    LET max_value == UMax(vs)
    IN  IF max_value = ZeroWord THEN 1 ELSE WordBits - leading_zeros(max_value)

\* while bits_in_buffer >= 8 { packed.push(bit_buffer as u8); bit_buffer >>= 8; ... }
RECURSIVE FlushBytes(_, _, _)
FlushBytes(buf, bits, out) ==
    IF bits >= ByteBits
    THEN FlushBytes(Shr(buf, ByteBits), bits - ByteBits, Append(out, LowByte(buf)))
    ELSE [buf |-> buf, bits |-> bits, out |-> out]

RECURSIVE PackLoop(_, _, _, _, _, _)
\* As PackLoop, but the bits left in the buffer at the end are not written.
PackLoop_whole_bytes(vs, i, bw, buf, bits, out) ==
    IF i > Len(vs) THEN out
    ELSE LET mask == wrapping_sub(Shl(W(1), bw), W(1))
             masked_value == And(vs[i], mask)
             st == FlushBytes(Or(buf, Shl(masked_value, bits)), bits + bw, out)
         IN  PackLoop(vs, i + 1, bw, st.buf, st.bits, st.out)

PackLoop(vs, i, bw, buf, bits, out) ==
    IF i > Len(vs)
    THEN IF bits > 0 THEN Append(out, LowByte(buf)) ELSE out
    ELSE LET mask == wrapping_sub(Shl(W(1), bw), W(1))
             masked_value == And(vs[i], mask)
             st == FlushBytes(Or(buf, Shl(masked_value, bits)), bits + bw, out)
         IN  PackLoop(vs, i + 1, bw, st.buf, st.bits, st.out)

RECURSIVE ConcatLeBytes(_, _)
ConcatLeBytes(vs, i) ==
    IF i > Len(vs) THEN <<>> ELSE to_le_bytes(vs[i]) \o ConcatLeBytes(vs, i + 1)

bp64_pack(vs) ==
    IF vs = <<>> THEN Ok(<<>>)
    ELSE LET bit_width == bit_width_of(vs)
         IN  IF bit_width = 0 THEN Ok(<<bit_width>>)
             ELSE IF bit_width >= FastPathBits
             THEN Ok(<<bit_width>> \o ConcatLeBytes(vs, 1))
             ELSE Ok(PackLoop(vs, 1, bit_width, ZeroWord, 0, <<bit_width>>))

\* A u32 counter that has wrapped below zero is kept as a negative number
\* (n stands for 2^32 + n), so it compares above every bit width.
U32Lt(a, b) == a >= 0 /\ a < b

\* while bits_in_buffer < bit_width && byte_index < data.len() { ... }
RECURSIVE FillBuffer(_, _, _, _, _)
FillBuffer(data, bw, buf, bits, idx) ==
    IF U32Lt(bits, bw) /\ idx < Len(data)
    THEN FillBuffer(data, bw, Or(buf, Shl(W(data[idx + 1]), bits)),
                    bits + ByteBits, idx + 1)
    ELSE [buf |-> buf, bits |-> bits, idx |-> idx]

RECURSIVE UnpackLoop(_, _, _, _, _, _, _)
UnpackLoop(data, bw, n, buf, bits, idx, out) ==
    IF n = 0 THEN Ok(out)
    ELSE LET st == FillBuffer(data, bw, buf, bits, idx)
             mask == wrapping_sub(Shl(W(1), bw), W(1))
             value == And(st.buf, mask)
         IN  IF U32Lt(st.bits, bw) /\ overflow_checks
             THEN Err("panic", "attempt to subtract with overflow")
             ELSE UnpackLoop(data, bw, n - 1, Shr(st.buf, bw), st.bits - bw, st.idx,
                             Append(out, value))

bp64_unpack(packed, count) ==
    IF packed = <<>> THEN Ok(<<>>)
    ELSE LET bit_width == packed[1]
             data == Tail(packed)
         IN  IF bit_width = 0 \/ count = 0 THEN Ok([i \in 1..count |-> ZeroWord])
             ELSE IF bit_width >= FastPathBits
             THEN Ok([i \in 1..count |->
                        LET start == (i - 1) * ByteBits
                        IN  IF start + ByteBits <= Len(data)
                            THEN from_le_bytes(SubSeq(data, start + 1, start + ByteBits))
                            ELSE ZeroWord])
             ELSE UnpackLoop(data, bit_width, count, ZeroWord, 0, 0, <<>>)

compress_int_array(vs) ==
    IF vs = <<>> THEN Ok(<<>>)
    ELSE LET for == frame_of_reference_encode(vs)
             unsigned_values == zig_zag_encode(for.deltas)
             packed == bp64_pack(unsigned_values)
         IN  IF ~packed.ok THEN packed
             ELSE Ok(to_le_bytes(for.midpoint) \o u32_to_le_bytes(Len(packed.val))
                     \o packed.val)

\* The 8-byte midpoint and the 4-byte packed length that precede the packed bytes.
IntHeaderLen == 12

decompress_int_array(data, count) ==
    IF data = <<>> THEN Ok(<<>>)
    ELSE IF Len(data) < IntHeaderLen
    THEN Err("DecompressionError", "Invalid compressed data length")
    ELSE LET midpoint == from_le_bytes(SubSeq(data, 1, 8))
             packed_len == u32_from_le_bytes(SubSeq(data, 9, 12))
         IN  IF Len(data) < IntHeaderLen + packed_len
             THEN Err("DecompressionError", "Insufficient data for packed array")
             ELSE LET packed == SubSeq(data, IntHeaderLen + 1, IntHeaderLen + packed_len)
                      unsigned_values == bp64_unpack(packed, count)
                  IN  IF ~unsigned_values.ok THEN unsigned_values
                      ELSE Ok(frame_of_reference_decode(midpoint,
                                  zig_zag_decode(unsigned_values.val)))

(***************************************************************************)
(* Inputs of the integer pipeline: sequences of up to MaxLen words over a  *)
(* set that holds the extremes of i64 and u64, both sides of the 32-bit    *)
(* bit-width threshold, and small values of different widths.              *)
(***************************************************************************)
RECURSIVE SeqsUpTo(_, _)
SeqsUpTo(S, n) ==
    IF n = 0 THEN {<<>>}
    ELSE LET shorter == SeqsUpTo(S, n - 1)
         IN  shorter \cup {Append(s, x) : s \in {t \in shorter : Len(t) = n - 1}, x \in S}

InitInt ==
    /\ fault = None
    /\ pc = "start"
    /\ overflow_checks \in BOOLEAN
    /\ values \in SeqsUpTo({ZeroWord, W(1), W(1000), Shl(W(1), FastPathBits - 1),
                            OnesWord, I64Min, I64Max}, MaxLen)
    /\ raw = None
    /\ algorithm = None
    /\ coded = None
    /\ decoded = None
    /\ schema = None
    /\ logical = None
    /\ verdict = None

ZigZagEncode ==
    /\ pc = "start"
    /\ coded' = zig_zag_encode(values)
    /\ pc' = "zig_zag_encoded"
    /\ UNCHANGED <<overflow_checks, fault, values, raw, algorithm, decoded, validationVars>>

ZigZagDecode ==
    /\ pc = "zig_zag_encoded"
    /\ decoded' = zig_zag_decode(coded)
    /\ pc' = "zig_zag_decoded"
    /\ UNCHANGED <<overflow_checks, fault, values, raw, algorithm, coded, validationVars>>

Bp64Pack ==
    /\ pc = "start"
    /\ coded' = bp64_pack(values)
    /\ pc' = "bp64_packed"
    /\ UNCHANGED <<overflow_checks, fault, values, raw, algorithm, decoded, validationVars>>

Bp64Unpack ==
    /\ pc = "bp64_packed"
    /\ coded.ok
    /\ decoded' = bp64_unpack(coded.val, Len(values))
    /\ pc' = "bp64_unpacked"
    /\ UNCHANGED <<overflow_checks, fault, values, raw, algorithm, coded, validationVars>>

CompressInt ==
    /\ pc = "start"
    /\ coded' = compress_int_array(values)
    /\ pc' = "int_compressed"
    /\ UNCHANGED <<overflow_checks, fault, values, raw, algorithm, decoded, validationVars>>

DecompressInt ==
    /\ pc = "int_compressed"
    /\ coded.ok
    /\ decoded' = decompress_int_array(coded.val, Len(values))
    /\ pc' = "int_decompressed"
    /\ UNCHANGED <<overflow_checks, fault, values, raw, algorithm, coded, validationVars>>

NextInt ==
    \/ ZigZagEncode
    \/ ZigZagDecode
    \/ Bp64Pack
    \/ Bp64Unpack
    \/ CompressInt
    \/ DecompressInt

SpecInt == InitInt /\ [][NextInt]_vars

\* C3: decompress_int_array(compress_int_array(v), |v|) = Ok(v) for every
\* sequence v of i64 values, the extremes and the empty sequence included.
C3_IntPipelineRoundTrip ==
    /\ pc = "int_compressed" => coded.ok
    /\ pc = "int_decompressed" => decoded = Ok(values)

C3_Witness ==
    /\ pc = "int_decompressed"
    /\ Len(values) = MaxLen
    /\ \E i \in 1..Len(values) : values[i] = I64Min
    /\ \E i \in 1..Len(values) : values[i] = I64Max
    /\ decoded = Ok(values)

\* C5: bp64_unpack(bp64_pack(v), |v|) = Ok(v) for every sequence v of u64
\* values of any magnitude, all-zero and empty sequences included.
C5_Bp64RoundTrip ==
    /\ pc = "bp64_packed" => coded.ok
    /\ pc = "bp64_unpacked" => decoded = Ok(values)

C5_Witness ==
    /\ pc = "bp64_unpacked"
    /\ Len(values) >= 2
    /\ coded.val[1] < FastPathBits
    /\ coded.val[1] > 1
    /\ decoded = Ok(values)

\* C27: bp64_pack of no values is empty.  Of n > 0 values it starts with the
\* byte bit_width, the number of bits of the largest value (1 when all are
\* 0); from 32 bits on, the values follow as 8 little-endian bytes each,
\* 1 + 8n bytes in all; below, the values follow as one stream of bits, value
\* after value and lowest bit first, in 1 + ceil(n * bit_width / 8) bytes.
C27_Bp64Layout ==
    pc = "bp64_packed"
        => LET n == Len(values)
               fits(b) == \A i \in 1..n : \A k \in (b + 1)..WordBits : values[i][k] = 0
               bits == CHOOSE b \in 1..WordBits : fits(b) /\ \A a \in 1..(b - 1) : ~fits(a)
               out == coded.val
               \* Bit p (from 0) of the bytes that follow the first one.
               bit(p) == (out[2 + (p \div ByteBits)] \div (2 ^ (p % ByteBits))) % 2
           IN  /\ coded.ok
               /\ n = 0 => out = <<>>
               /\ n > 0 => out[1] = bits
               /\ (n > 0 /\ bits >= 32)
                      => /\ Len(out) = 1 + 8 * n
                         /\ \A p \in 0..(64 * n - 1) :
                                bit(p) = values[(p \div 64) + 1][(p % 64) + 1]
               /\ (n > 0 /\ bits < 32)
                      => /\ Len(out) = 1 + ((n * bits + 7) \div 8)
                         /\ \A p \in 0..(8 * (Len(out) - 1) - 1) :
                                bit(p) = IF p < n * bits
                                         THEN values[(p \div bits) + 1][(p % bits) + 1]
                                         ELSE 0

\* Three values of ten bits in four bytes after the width.
C27_Witness ==
    /\ pc = "bp64_packed"
    /\ values = <<W(1), W(1000), ZeroWord>>
    /\ coded.ok
    /\ coded.val[1] = 10
    /\ Len(coded.val) = 5

\* Two values of 32 and 64 bits on the fast path.
C27_WitnessFastPath ==
    /\ pc = "bp64_packed"
    /\ values = <<Shl(W(1), FastPathBits - 1), OnesWord>>
    /\ coded.ok
    /\ coded.val[1] = 64
    /\ Len(coded.val) = 17

\* The decoder on payloads that compress_int_array did not make for the
\* declared count: nothing at all, a header that announces no packed bytes, a
\* header that announces the width byte alone, the payload of one value more,
\* and the payload as written.
InitCounted ==
    /\ fault = None
    /\ pc = "int_compressed"
    /\ overflow_checks \in BOOLEAN
    /\ values \in SeqsUpTo({ZeroWord, W(1), W(1000), OnesWord, I64Min}, MaxLen)
    /\ raw = None
    /\ algorithm = None
    /\ decoded = None
    /\ schema = None
    /\ logical = None
    /\ verdict = None
    /\ \E written \in {compress_int_array(values \o tail).val : tail \in {<<>>, <<W(1)>>}} :
           coded \in {Ok(written), Ok(<<>>)}
               \cup {Ok(SubSeq(written, 1, 8) \o u32_to_le_bytes(k)
                        \o SubSeq(written, IntHeaderLen + 1, IntHeaderLen + k)) :
                         k \in {j \in 0..1 : IntHeaderLen + j <= Len(written)}}

NextCounted == DecompressInt

SpecCounted == InitCounted /\ [][NextCounted]_vars

\* C28: when decompress_int_array(data, count) returns Ok, it returns count
\* values, whatever the payload and the packed length it announces.
C28_CountRespected ==
    (pc = "int_decompressed" /\ decoded.ok) => Len(decoded.val) = Len(values)

\* C6: zig_zag_encode maps every i64 n to (n << 1) XOR (n >> 63) with
\* wrap-around, that is to 2n for n >= 0 and to -2n - 1 for n < 0 modulo 2^64,
\* and zig_zag_decode(zig_zag_encode(v)) = v.
C6_ZigZagBijection ==
    /\ pc \in {"zig_zag_encoded", "zig_zag_decoded"} =>
         /\ Len(coded) = Len(values)
         /\ \A i \in 1..Len(values) :
              coded[i] = IF IsNeg(values[i])
                         THEN wrapping_sub(Neg(wrapping_add(values[i], values[i])), W(1))
                         ELSE wrapping_add(values[i], values[i])
    /\ pc = "zig_zag_decoded" => decoded = values

C6_Witness ==
    /\ pc = "zig_zag_decoded"
    /\ \E i \in 1..Len(values) : values[i] = I64Min
    /\ \E i \in 1..Len(values) : values[i] = I64Max
    /\ decoded = values

(***************************************************************************)
(* compression.rs: byte arrays.  Zstd is an external library; it is        *)
(* modelled as a frame of its magic number followed by (run length, byte)  *)
(* pairs: a lossless coder whose output grows with the number of runs, not *)
(* with the number of bytes, as Zstd's does on repetitive input.  The      *)
(* level changes only how hard the real coder tries and is not modelled.   *)
(* zstd::bulk::decompress(data, capacity) fails when the decoded bytes do  *)
(* not fit in capacity ("Destination buffer is too small").                *)
(***************************************************************************)
ZstdMagic == <<40, 181, 47, 253>>

RECURSIVE RunLen(_, _)
RunLen(bs, i) ==
    IF i < Len(bs) /\ bs[i + 1] = bs[i] /\ i < 255 THEN RunLen(bs, i + 1) ELSE i

RECURSIVE ZstdRuns(_)
ZstdRuns(bs) ==
    IF bs = <<>> THEN <<>>
    ELSE LET n == RunLen(bs, 1)
         IN  <<n, bs[1]>> \o ZstdRuns(SubSeq(bs, n + 1, Len(bs)))

zstd_bulk_compress(bs, level) == Ok(ZstdMagic \o ZstdRuns(bs))

RECURSIVE ZstdExpand(_)
ZstdExpand(ps) ==
    IF ps = <<>> THEN <<>>
    ELSE [i \in 1..ps[1] |-> ps[2]] \o ZstdExpand(SubSeq(ps, 3, Len(ps)))

zstd_bulk_decompress(bs, capacity) ==
    LET body == Len(bs) - Len(ZstdMagic)
        well_formed ==
            /\ body >= 0
            /\ SubSeq(bs, 1, Len(ZstdMagic)) = ZstdMagic
            /\ body % 2 = 0
            /\ \A k \in 1..(body \div 2) : bs[Len(ZstdMagic) + 2 * k - 1] > 0
    IN
    IF ~well_formed THEN Err("io", "Unknown frame descriptor")
    ELSE LET out == ZstdExpand(SubSeq(bs, Len(ZstdMagic) + 1, Len(bs)))
         IN  IF Len(out) > capacity THEN Err("io", "Destination buffer is too small")
             ELSE Ok(out)

CompressionNone == [kind |-> "None"]

Zstd(level) == [kind |-> "Zstd", level |-> level]

compress_binary(bs, alg) ==
    IF alg.kind = "None" THEN Ok(bs)
    ELSE LET r == zstd_bulk_compress(bs, alg.level)
         IN  IF r.ok THEN r ELSE Err("CompressionError", "Zstd compression failed")

\* The capacity handed to Zstd is an estimate: four times the compressed length.
DecompressEstimate == 4

decompress_binary(bs, alg) ==
    IF alg.kind = "None" THEN Ok(bs)
    ELSE LET r == zstd_bulk_decompress(bs, Len(bs) * DecompressEstimate)
         IN  IF r.ok THEN r ELSE Err("DecompressionError", "Zstd decompression failed")

(***************************************************************************)
(* Inputs of the byte-array pipeline: up to two runs of up to MaxRun equal *)
(* bytes, so that both incompressible and highly compressible inputs occur.*)
(***************************************************************************)
Run(b, n) == [i \in 1..n |-> b]

ByteInputs ==
    {Run(b1, n1) \o Run(b2, n2) : b1 \in {0, 65, 255}, b2 \in {0, 65},
                                  n1 \in 0..MaxRun, n2 \in 0..2}

InitBytes ==
    /\ fault = None
    /\ pc = "start"
    /\ overflow_checks \in BOOLEAN
    /\ values = None
    /\ raw \in ByteInputs
    /\ algorithm \in {CompressionNone, Zstd(1), Zstd(3), Zstd(22)}
    /\ coded = None
    /\ decoded = None
    /\ schema = None
    /\ logical = None
    /\ verdict = None

CompressBinary ==
    /\ pc = "start"
    /\ coded' = compress_binary(raw, algorithm)
    /\ pc' = "binary_compressed"
    /\ UNCHANGED <<overflow_checks, fault, values, raw, algorithm, decoded, validationVars>>

DecompressBinary ==
    /\ pc = "binary_compressed"
    /\ coded.ok
    /\ decoded' = decompress_binary(coded.val, algorithm)
    /\ pc' = "binary_decompressed"
    /\ UNCHANGED <<overflow_checks, fault, values, raw, algorithm, coded, validationVars>>

NextBytes ==
    \/ CompressBinary
    \/ DecompressBinary

SpecBytes == InitBytes /\ [][NextBytes]_vars

\* C4: decompress_binary(compress_binary(b, alg), alg) = Ok(b) for every byte
\* sequence b, of any length and compressibility, and every algorithm.
C4_ByteRoundTrip ==
    /\ pc = "binary_compressed" => coded.ok
    /\ pc = "binary_decompressed" => decoded = Ok(raw)

(***************************************************************************)
(* data.rs, logical.rs: encodings, schemas, logical values and tables.     *)
(* Every node is a record tagged by `kind`; a String is its UTF-8 bytes.   *)
(***************************************************************************)
\* Default is "Allow" or "Deny".  Encoding is [kind, sub]:
\*   [kind |-> "Int", sub |-> e] with e in IntEncodings, or
\*   [kind |-> "Binary", sub |-> e] with e in BinaryEncodings.
\* ValueSchema:  [kind |-> "Unit"], [kind |-> "Int", default, encoding],
\*   [kind |-> "Double", default], [kind |-> "Binary", default, encoding],
\*   [kind |-> "Array", default, element], [kind |-> "Struct", default, fields],
\*   [kind |-> "Enum", default, variants], [kind |-> "Nested", table],
\*   [kind |-> "Reversed", inner]; FieldSchema is [name, schema] and
\*   VariantSchema is [name, tag, schema].
\* TableSchema:  [kind |-> "Binary", default, encoding],
\*   [kind |-> "Array", default, element], [kind |-> "Map", default, key, value].
\* Value:  [kind |-> "Unit"], [kind |-> "Int", n], [kind |-> "Double", bits],
\*   [kind |-> "Binary", bytes], [kind |-> "Array", items], [kind |-> "Struct", fields],
\*   [kind |-> "Enum", tag, value], [kind |-> "Nested", table],
\*   [kind |-> "Reversed", inner]; Field is [name, value].
\* Table:  [kind |-> "Binary", bytes], [kind |-> "Array", items],
\*   [kind |-> "Map", pairs] with pairs a sequence of <<key, value>>.
IntEncodings == <<"Int", "Date", "TimeSeconds", "TimeMilliseconds", "TimeMicroseconds">>

BinaryEncodings == <<"Binary", "Utf8">>

\* SchemaError values.
TypeMismatch(expected) == [ok |-> FALSE, err |-> "TypeMismatch", expected |-> expected]

MissingField(n) == [ok |-> FALSE, err |-> "MissingField", field |-> n]

UnsupportedTag(t) == [ok |-> FALSE, err |-> "UnsupportedType", msg |-> "enum tag", tag |-> t]

UnsupportedType(m) == [ok |-> FALSE, err |-> "UnsupportedType", msg |-> m]

OkUnit == Ok(<<>>)

\* The first index of a loop or of Iterator::find / position among those in S.
Least(S) == CHOOSE i \in S : \A j \in S : i <= j

RECURSIVE position_of_tag(_, _, _)

\* As position_of_tag, but a tag that no variant has falls to the last variant.
position_of_tag_or_last(variants, tag, i) ==
    IF i > Len(variants) THEN Len(variants)
    ELSE IF variants[i].tag = tag THEN i
    ELSE position_of_tag(variants, tag, i + 1)

\* variants.iter().position(|v| v.tag == tag): the first index, or 0 for None.
position_of_tag(variants, tag, i) ==
    IF i > Len(variants) THEN 0
    ELSE IF variants[i].tag = tag THEN i
    ELSE position_of_tag(variants, tag, i + 1)

(***************************************************************************)
(* logical.rs: Table::validate_schema and Value::validate_schema.          *)
(***************************************************************************)
RECURSIVE Value_validate_schema(_, _)
RECURSIVE Table_validate_schema(_, _)
RECURSIVE validate_each(_, _, _)
RECURSIVE validate_pairs(_, _, _, _)
RECURSIVE validate_fields(_, _, _)

\* for value in values { value.validate_schema(element)?; }
validate_each(vs, element, i) ==
    IF i > Len(vs) THEN OkUnit
    ELSE LET r == Value_validate_schema(vs[i], element)
         IN  IF r.ok THEN validate_each(vs, element, i + 1) ELSE r

\* for (k, v) in pairs { k.validate_schema(key)?; v.validate_schema(value)?; }
validate_pairs(ps, key, val, i) ==
    IF i > Len(ps) THEN OkUnit
    ELSE LET rk == Value_validate_schema(ps[i][1], key)
         IN  IF ~rk.ok THEN rk
             ELSE LET rv == Value_validate_schema(ps[i][2], val)
                  IN  IF rv.ok THEN validate_pairs(ps, key, val, i + 1) ELSE rv

\* As validate_fields, but a name difference names the value's field.
validate_fields_naming_value(fs, field_schemas, i) ==
    IF i > Len(fs) \/ i > Len(field_schemas) THEN OkUnit
    ELSE IF fs[i].name # field_schemas[i].name THEN MissingField(fs[i].name)
    ELSE LET r == Value_validate_schema(fs[i].value, field_schemas[i].schema)
         IN  IF r.ok THEN validate_fields(fs, field_schemas, i + 1) ELSE r

\* for (field, field_schema) in fields.iter().zip(field_schemas.iter()) { ... }
validate_fields(fs, field_schemas, i) ==
    IF i > Len(fs) \/ i > Len(field_schemas) THEN OkUnit
    ELSE IF fs[i].name # field_schemas[i].name THEN MissingField(field_schemas[i].name)
    ELSE LET r == Value_validate_schema(fs[i].value, field_schemas[i].schema)
         IN  IF r.ok THEN validate_fields(fs, field_schemas, i + 1) ELSE r

Table_validate_schema(t, s) ==
    IF t.kind = "Binary" /\ s.kind = "Binary" THEN OkUnit
    ELSE IF t.kind = "Array" /\ s.kind = "Array" THEN validate_each(t.items, s.element, 1)
    ELSE IF t.kind = "Map" /\ s.kind = "Map" THEN validate_pairs(t.pairs, s.key, s.value, 1)
    ELSE TypeMismatch(s.kind)

Value_validate_schema(v, s) ==
    IF v.kind = "Unit" /\ s.kind = "Unit" THEN OkUnit
    ELSE IF v.kind = "Int" /\ s.kind = "Int" THEN OkUnit
    ELSE IF v.kind = "Double" /\ s.kind = "Double" THEN OkUnit
    ELSE IF v.kind = "Binary" /\ s.kind = "Binary" THEN OkUnit
    ELSE IF v.kind = "Array" /\ s.kind = "Array" THEN validate_each(v.items, s.element, 1)
    ELSE IF v.kind = "Struct" /\ s.kind = "Struct"
    THEN IF Len(v.fields) # Len(s.fields) THEN TypeMismatch("struct field count")
         ELSE validate_fields(v.fields, s.fields, 1)
    ELSE IF v.kind = "Enum" /\ s.kind = "Enum"
    THEN LET k == position_of_tag(s.variants, v.tag, 1)
         IN  IF k > 0 THEN Value_validate_schema(v.value, s.variants[k].schema)
             ELSE UnsupportedTag(v.tag)
    ELSE IF v.kind = "Nested" /\ s.kind = "Nested" THEN Table_validate_schema(v.table, s.table)
    ELSE IF v.kind = "Reversed" /\ s.kind = "Reversed"
    THEN Value_validate_schema(v.inner, s.inner)
    ELSE TypeMismatch(s.kind)

(***************************************************************************)
(* Schema well-formedness: ValueSchema::validate and TableSchema::validate.*)
(* Their tests call them, their bodies are not among the sources; they are *)
(* modelled from the specification (section 4.2) and the tests' messages.  *)
(***************************************************************************)
RECURSIVE ValueSchema_validate(_)
RECURSIVE TableSchema_validate(_)
RECURSIVE validate_members(_, _)

\* Validate the schema of every field or variant in order; the first error wins.
validate_members(ms, i) ==
    IF i > Len(ms) THEN OkUnit
    ELSE LET r == ValueSchema_validate(ms[i].schema)
         IN  IF r.ok THEN validate_members(ms, i + 1) ELSE r

\* Some key (a field's name, a variant's tag) occurs twice.
HasDuplicate(keys) == \E i, j \in 1..Len(keys) : i < j /\ keys[i] = keys[j]

ValueSchema_validate_shallow(s) ==
    IF s.kind = "Struct"
    THEN IF s.fields = <<>> THEN UnsupportedType("Empty struct schemas are not supported")
         ELSE IF HasDuplicate([i \in 1..Len(s.fields) |-> s.fields[i].name])
         THEN UnsupportedType("Duplicate field name")
         ELSE validate_members(s.fields, 1)
    ELSE IF s.kind = "Enum"
    THEN IF s.variants = <<>> THEN UnsupportedType("Empty enum schemas are not supported")
         ELSE IF HasDuplicate([i \in 1..Len(s.variants) |-> s.variants[i].tag])
         THEN UnsupportedType("Duplicate enum tag")
         ELSE OkUnit
    ELSE IF s.kind = "Array" THEN ValueSchema_validate(s.element)
    ELSE IF s.kind = "Nested" THEN TableSchema_validate(s.table)
    ELSE IF s.kind = "Reversed" THEN ValueSchema_validate(s.inner)
    ELSE OkUnit

ValueSchema_validate(s) ==
    IF s.kind = "Struct"
    THEN IF s.fields = <<>> THEN UnsupportedType("Empty struct schemas are not supported")
         ELSE IF HasDuplicate([i \in 1..Len(s.fields) |-> s.fields[i].name])
         THEN UnsupportedType("Duplicate field name")
         ELSE validate_members(s.fields, 1)
    ELSE IF s.kind = "Enum"
    THEN IF s.variants = <<>> THEN UnsupportedType("Empty enum schemas are not supported")
         ELSE IF HasDuplicate([i \in 1..Len(s.variants) |-> s.variants[i].tag])
         THEN UnsupportedType("Duplicate enum tag")
         ELSE validate_members(s.variants, 1)
    ELSE IF s.kind = "Array" THEN ValueSchema_validate(s.element)
    ELSE IF s.kind = "Nested" THEN TableSchema_validate(s.table)
    ELSE IF s.kind = "Reversed" THEN ValueSchema_validate(s.inner)
    ELSE OkUnit

TableSchema_validate(s) ==
    IF s.kind = "Array" THEN ValueSchema_validate(s.element)
    ELSE IF s.kind = "Map"
    THEN LET r == ValueSchema_validate(s.key)
         IN  IF r.ok THEN ValueSchema_validate(s.value) ELSE r
    ELSE OkUnit

(***************************************************************************)
(* String::from_utf8 succeeds exactly on well-formed UTF-8 (RFC 3629).     *)
(***************************************************************************)
RECURSIVE Utf8From(_, _)
Utf8From(bs, i) ==
    IF i > Len(bs) THEN TRUE
    ELSE LET b == bs[i]
             InRange(j, lo, hi) == j <= Len(bs) /\ bs[j] >= lo /\ bs[j] <= hi
             IsCont(j) == InRange(j, 128, 191)
         IN  IF b < 128 THEN Utf8From(bs, i + 1)
             ELSE IF b >= 194 /\ b <= 223 THEN IsCont(i + 1) /\ Utf8From(bs, i + 2)
             ELSE IF b >= 224 /\ b <= 239
             THEN /\ InRange(i + 1, IF b = 224 THEN 160 ELSE 128,
                                        IF b = 237 THEN 159 ELSE 191)
                  /\ IsCont(i + 2)
                  /\ Utf8From(bs, i + 3)
             ELSE IF b >= 240 /\ b <= 244
             THEN /\ InRange(i + 1, IF b = 240 THEN 144 ELSE 128,
                                        IF b = 244 THEN 143 ELSE 191)
                  /\ IsCont(i + 2)
                  /\ IsCont(i + 3)
                  /\ Utf8From(bs, i + 4)
             ELSE FALSE

from_utf8_ok(bs) == Utf8From(bs, 1)

(***************************************************************************)
(* Validation: schemas, values and tables handed to the validators.        *)
(***************************************************************************)
NameA == <<97>>

NameB == <<98>>

NameUpperA == <<65>>

UnitSchema == [kind |-> "Unit"]

IntSchema(e) ==
    [kind |-> "Int", default |-> "Allow", encoding |-> [kind |-> "Int", sub |-> e]]

DoubleSchema == [kind |-> "Double", default |-> "Allow"]

BinarySchema(e) ==
    [kind |-> "Binary", default |-> "Allow", encoding |-> [kind |-> "Binary", sub |-> e]]

ArraySchema(e) == [kind |-> "Array", default |-> "Allow", element |-> e]

StructSchema(fs) == [kind |-> "Struct", default |-> "Allow", fields |-> fs]

EnumSchema(vs) == [kind |-> "Enum", default |-> "Allow", variants |-> vs]

MapSchema(k, v) == [kind |-> "Map", default |-> "Allow", key |-> k, value |-> v]

UnitValue == [kind |-> "Unit"]

IntValue(w) == [kind |-> "Int", n |-> w]

\* The largest Date, 4_102_444_800_000 ms (2100-01-01), as little-endian bytes.
DateMax == from_le_bytes(<<0, 216, 195, 44, 187, 3, 0, 0>>)

\* The (schema, value) pairs handed to Value::validate_schema: integers around
\* the Date bound under every integer encoding; byte strings ("", "A", "é", a
\* 4-byte scalar, then FF FE FD, a truncated sequence, an overlong NUL, a
\* surrogate and a lone continuation byte) under both binary encodings;
\* structs of up to MaxFields + 1 fields against struct schemas of up to
\* MaxFields; enums; and every kind of value against every kind of schema.
ValueCases ==
    LET IntProbes == {OnesWord, ZeroWord, W(1000), DateMax, wrapping_add(DateMax, W(1)),
                      I64Min, I64Max}
        Utf8Probes == {<<>>, <<65>>, <<195, 169>>, <<240, 159, 146, 150>>,
                       <<255, 254, 253>>, <<195>>, <<192, 128>>, <<237, 160, 128>>,
                       <<65, 128>>}
        IntCases == {<<IntSchema(IntEncodings[e]), IntValue(w)>> :
                         e \in 1..Len(IntEncodings), w \in IntProbes}
        BinaryCases ==
            {<<BinarySchema(BinaryEncodings[e]), [kind |-> "Binary", bytes |-> bs]>> :
                 e \in 1..Len(BinaryEncodings), bs \in Utf8Probes}
        field_schemas == {[name |-> NameA, schema |-> IntSchema("Int")],
                          [name |-> NameB, schema |-> IntSchema("Int")],
                          [name |-> NameB, schema |-> UnitSchema]}
        fields == {[name |-> n, value |-> v] :
                       n \in {NameA, NameB, NameUpperA}, v \in {IntValue(ZeroWord), UnitValue}}
        StructCases == {<<StructSchema(fs), [kind |-> "Struct", fields |-> vs]>> :
                            fs \in SeqsUpTo(field_schemas, MaxFields),
                            vs \in SeqsUpTo(fields, MaxFields + 1)}
        variants(t) == <<[name |-> NameA, tag |-> 0, schema |-> IntSchema("Int")],
                         [name |-> NameB, tag |-> t, schema |-> UnitSchema]>>
        EnumCases == {<<EnumSchema(vs), [kind |-> "Enum", tag |-> t, value |-> v]>> :
                          vs \in {<<>>, variants(0), variants(1)},
                          t \in 0..2, v \in {IntValue(ZeroWord), UnitValue}}
        binary_table == [kind |-> "Binary", bytes |-> <<65>>]
        binary_schema == BinarySchema("Binary")
        schemas == {UnitSchema, IntSchema("Int"), DoubleSchema, binary_schema,
                    ArraySchema(UnitSchema),
                    StructSchema(<<[name |-> NameA, schema |-> UnitSchema]>>),
                    EnumSchema(<<[name |-> NameA, tag |-> 0, schema |-> UnitSchema]>>),
                    [kind |-> "Nested", table |-> binary_schema],
                    [kind |-> "Nested", table |-> MapSchema(IntSchema("Date"), UnitSchema)],
                    [kind |-> "Reversed", inner |-> UnitSchema]}
        vals == {UnitValue, IntValue(ZeroWord), [kind |-> "Double", bits |-> ZeroWord],
                 [kind |-> "Binary", bytes |-> <<65>>],
                 [kind |-> "Array", items |-> <<UnitValue, UnitValue>>],
                 [kind |-> "Array", items |-> <<UnitValue, IntValue(ZeroWord)>>],
                 [kind |-> "Struct", fields |-> <<[name |-> NameA, value |-> UnitValue]>>],
                 [kind |-> "Enum", tag |-> 0, value |-> UnitValue],
                 [kind |-> "Nested", table |-> binary_table],
                 [kind |-> "Nested", table |->
                     [kind |-> "Map", pairs |-> <<<<IntValue(OnesWord), UnitValue>>>>]],
                 [kind |-> "Reversed", inner |-> UnitValue],
                 [kind |-> "Reversed", inner |-> IntValue(ZeroWord)]}
        KindCases == {<<x, v>> : x \in schemas, v \in vals}
    IN  IntCases \cup BinaryCases \cup StructCases \cup EnumCases \cup KindCases

\* Schemas handed to ValueSchema::validate: leaves, structs and enums of up to
\* MaxFields members over them (empty and duplicated ones included), and two
\* further levels of wrappers around those.
SchemaCases ==
    LET leaves == {UnitSchema, IntSchema("Int")}
        structs == {StructSchema(fs) :
                        fs \in SeqsUpTo({[name |-> n, schema |-> x] :
                                             n \in {NameA, NameUpperA}, x \in leaves},
                                        MaxFields)}
        enums == {EnumSchema(vs) :
                      vs \in SeqsUpTo({[name |-> NameA, tag |-> t, schema |-> x] :
                                           t \in 0..1, x \in leaves},
                                      MaxFields)}
        level1 == leaves \cup structs \cup enums
        wrap(S) == {ArraySchema(x) : x \in S}
                   \cup {[kind |-> "Reversed", inner |-> x] : x \in S}
                   \cup {[kind |-> "Nested", table |-> ArraySchema(x)] : x \in S}
                   \cup {[kind |-> "Nested", table |-> MapSchema(UnitSchema, x)] : x \in S}
                   \cup {StructSchema(<<[name |-> NameA, schema |-> UnitSchema],
                                        [name |-> NameB, schema |-> x]>>) : x \in S}
                   \cup {EnumSchema(<<[name |-> NameA, tag |-> 0, schema |-> UnitSchema],
                                      [name |-> NameA, tag |-> 1, schema |-> x]>>) : x \in S}
        level2 == wrap(level1)
        level3 == {ArraySchema(x) : x \in level2}
                  \cup {EnumSchema(<<[name |-> NameA, tag |-> 0, schema |-> x]>>) :
                            x \in level2}
    IN  level1 \cup level2 \cup level3

InitValidate ==
    /\ fault = None
    /\ overflow_checks \in BOOLEAN
    /\ values = None
    /\ raw = None
    /\ algorithm = None
    /\ coded = None
    /\ decoded = None
    /\ verdict = None
    /\ \/ /\ pc = "have_value"
          /\ \E c \in ValueCases : schema = c[1] /\ logical = c[2]
       \/ /\ pc = "have_table"
          /\ schema \in {BinarySchema("Utf8"), ArraySchema(IntSchema("Date")),
                         MapSchema(IntSchema("Int"), BinarySchema("Utf8"))}
          /\ LET binary(bs) == [kind |-> "Binary", bytes |-> bs]
             IN  logical \in
                     {binary(bs) : bs \in {<<>>, <<65>>, <<255>>}}
                         \cup {[kind |-> "Array", items |-> vs] :
                                   vs \in SeqsUpTo({IntValue(OnesWord), UnitValue},
                                                   MaxFields)}
                         \cup {[kind |-> "Map", pairs |-> ps] :
                                   ps \in SeqsUpTo({<<IntValue(ZeroWord), binary(<<255>>)>>,
                                                    <<UnitValue, binary(<<65>>)>>,
                                                    <<IntValue(ZeroWord), UnitValue>>},
                                                   MaxFields)}
       \/ /\ pc = "have_schema"
          /\ schema \in SchemaCases
          /\ logical = None
       \/ /\ pc = "have_table_schema"
          /\ schema \in {BinarySchema("Binary")}
                             \cup {ArraySchema(x) : x \in SchemaCases}
                             \cup {MapSchema(x, UnitSchema) : x \in SchemaCases}
                             \cup {MapSchema(UnitSchema, x) : x \in SchemaCases}
          /\ logical = None

ValidateValue ==
    /\ pc = "have_value"
    /\ verdict' = Value_validate_schema(logical, schema)
    /\ pc' = "value_validated"
    /\ UNCHANGED <<overflow_checks, fault, codecVars, schema, logical>>

ValidateTable ==
    /\ pc = "have_table"
    /\ verdict' = Table_validate_schema(logical, schema)
    /\ pc' = "table_validated"
    /\ UNCHANGED <<overflow_checks, fault, codecVars, schema, logical>>

ValidateValueSchema ==
    /\ pc = "have_schema"
    /\ verdict' = ValueSchema_validate(schema)
    /\ pc' = "schema_validated"
    /\ UNCHANGED <<overflow_checks, fault, codecVars, schema, logical>>

ValidateTableSchema ==
    /\ pc = "have_table_schema"
    /\ verdict' = TableSchema_validate(schema)
    /\ pc' = "table_schema_validated"
    /\ UNCHANGED <<overflow_checks, fault, codecVars, schema, logical>>

NextValidate ==
    \/ ValidateValue
    \/ ValidateTable
    \/ ValidateValueSchema
    \/ ValidateTableSchema

SpecValidate == InitValidate /\ [][NextValidate]_vars

\* C7: an Int validates against Int{encoding: Date} iff 0 <= n <= 4_102_444_800_000;
\* against every other integer encoding every i64 validates.
C7_DateBound ==
    (pc = "value_validated" /\ logical.kind = "Int" /\ schema.kind = "Int")
        => (verdict.ok <=> (schema.encoding.sub = "Date"
                               => SLe(ZeroWord, logical.n) /\ SLe(logical.n, DateMax)))

\* C8: a Binary validates against Binary{encoding: Utf8} iff its bytes are valid
\* UTF-8; against encoding Binary every byte sequence validates.
C8_Utf8Validation ==
    (pc = "value_validated" /\ logical.kind = "Binary" /\ schema.kind = "Binary")
        => (verdict.ok <=> (schema.encoding.sub = "Utf8" => from_utf8_ok(logical.bytes)))

\* Every schema node reachable from s, s included (fields, variants, elements,
\* nested tables, map keys and values, reversed inners).
RECURSIVE SchemaNodes(_)
SchemaNodes(s) ==
    LET children ==
            IF s.kind = "Struct" THEN {s.fields[i].schema : i \in 1..Len(s.fields)}
            ELSE IF s.kind = "Enum" THEN {s.variants[i].schema : i \in 1..Len(s.variants)}
            ELSE IF s.kind = "Array" THEN {s.element}
            ELSE IF s.kind = "Nested" THEN {s.table}
            ELSE IF s.kind = "Reversed" THEN {s.inner}
            ELSE IF s.kind = "Map" THEN {s.key, s.value}
            ELSE {}
    IN  {s} \cup UNION {SchemaNodes(c) : c \in children}

WellFormedNode(n) ==
    /\ n.kind = "Struct" =>
           /\ Len(n.fields) > 0
           /\ Cardinality({n.fields[i].name : i \in 1..Len(n.fields)}) = Len(n.fields)
    /\ n.kind = "Enum" =>
           /\ Len(n.variants) > 0
           /\ Cardinality({n.variants[i].tag : i \in 1..Len(n.variants)}) = Len(n.variants)

\* C9: validating a schema on its own fails with UnsupportedType when, at any
\* depth, it holds an empty struct, an empty enum, a struct with two fields of
\* the same (case-sensitive) name or an enum with two variants of the same tag,
\* and succeeds for every other schema.
C9_SchemaWellFormedness ==
    pc \in {"schema_validated", "table_schema_validated"}
        => IF \A n \in SchemaNodes(schema) : WellFormedNode(n)
           THEN verdict = OkUnit
           ELSE ~verdict.ok /\ verdict.err = "UnsupportedType"

\* An ill-formed struct two levels down (inside an enum variant inside an array)
\* under well-formed ancestors has been rejected.
C9_Witness ==
    /\ pc = "schema_validated"
    /\ ~verdict.ok
    /\ schema.kind = "Array"
    /\ schema.element.kind = "Enum"
    /\ WellFormedNode(schema.element)
    /\ \E i \in 1..Len(schema.element.variants) :
           /\ schema.element.variants[i].schema.kind = "Struct"
           /\ ~WellFormedNode(schema.element.variants[i].schema)

\* The positions at which the names of a struct value and of a struct schema
\* of the same length differ.
NameDiffs(fs, ss) == {i \in 1..Len(fs) : fs[i].name # ss[i].name}

\* C10 as stated: a struct validates only if counts, ordered names and values
\* agree; a count difference yields TypeMismatch, and a name difference at
\* position i yields MissingField(name of schema field i).
C10_StructValidation ==
    (pc = "value_validated" /\ logical.kind = "Struct" /\ schema.kind = "Struct")
        => LET fs == logical.fields
               ss == schema.fields
           IN  /\ verdict.ok =>
                      /\ Len(fs) = Len(ss)
                      /\ \A i \in 1..Len(fs) :
                             /\ fs[i].name = ss[i].name
                             /\ Value_validate_schema(fs[i].value, ss[i].schema).ok
               /\ Len(fs) # Len(ss) => ~verdict.ok /\ verdict.err = "TypeMismatch"
               /\ (Len(fs) = Len(ss) /\ NameDiffs(fs, ss) # {})
                      => verdict = MissingField(ss[Least(NameDiffs(fs, ss))].name)

\* C10 amended: as above, but the first name difference, at position i, yields
\* MissingField(name of schema field i) when the values of all the fields
\* before i validate; otherwise the first of those values to fail decides.
C10_StructValidationInOrder ==
    (pc = "value_validated" /\ logical.kind = "Struct" /\ schema.kind = "Struct")
        => LET fs == logical.fields
               ss == schema.fields
               bad == {i \in 1..Len(fs) :
                           \/ fs[i].name # ss[i].name
                           \/ ~Value_validate_schema(fs[i].value, ss[i].schema).ok}
           IN  /\ verdict.ok <=> (Len(fs) = Len(ss) /\ bad = {})
               /\ Len(fs) # Len(ss) => ~verdict.ok /\ verdict.err = "TypeMismatch"
               /\ (Len(fs) = Len(ss) /\ bad # {})
                      => LET i == Least(bad)
                         IN  IF fs[i].name # ss[i].name
                             THEN verdict = MissingField(ss[i].name)
                             ELSE verdict = Value_validate_schema(fs[i].value, ss[i].schema)

\* A struct whose first field matches and whose second field has another name
\* than the schema's has been rejected.
C10_Witness ==
    /\ pc = "value_validated"
    /\ logical.kind = "Struct"
    /\ schema.kind = "Struct"
    /\ Len(logical.fields) = Len(schema.fields)
    /\ NameDiffs(logical.fields, schema.fields) # {}
    /\ Least(NameDiffs(logical.fields, schema.fields)) > 1
    /\ ~verdict.ok
    /\ verdict.err = "MissingField"

\* C11: Value::Enum{tag, value} against Enum{variants} fails with
\* UnsupportedType naming the tag when no variant has the tag, whatever the
\* payload; when a variant has it, the result is that of validating the payload
\* against the schema of that variant (the first one, should two share the tag).
C11_EnumValidation ==
    (pc = "value_validated" /\ logical.kind = "Enum" /\ schema.kind = "Enum")
        => LET tagged == {i \in 1..Len(schema.variants) :
                              schema.variants[i].tag = logical.tag}
           IN  IF tagged = {}
               THEN verdict = [ok |-> FALSE, err |-> "UnsupportedType", msg |-> "enum tag",
                               tag |-> logical.tag]
               ELSE verdict = Value_validate_schema(logical.value,
                                                    schema.variants[Least(tagged)].schema)

\* An enum value whose tag none of the schema's two variants has was rejected,
\* although its payload validates against one of them.
C11_Witness ==
    /\ pc = "value_validated"
    /\ logical.kind = "Enum"
    /\ schema.kind = "Enum"
    /\ Len(schema.variants) = 2
    /\ \A i \in 1..2 : schema.variants[i].tag # logical.tag
    /\ \E i \in 1..2 : Value_validate_schema(logical.value, schema.variants[i].schema).ok
    /\ ~verdict.ok
    /\ verdict.err = "UnsupportedType"

(***************************************************************************)
(* logical.rs: merge.  Value::merge and Table::merge join two values or    *)
(* tables of one kind: equal primitives merge into themselves, arrays are  *)
(* concatenated, structs merge field by field, and the pairs of the second *)
(* map are merged into the first pair of the first map that has their key  *)
(* or appended.                                                            *)
(***************************************************************************)
\* (a - b).abs() < f64::EPSILON on the bits of two doubles, for 0.0 and the
\* powers of two whose exponents are at most 53 apart (the subtraction is
\* exact there): the difference of two different such doubles is below
\* 2^-52 when the larger is at most 2^-52 (biased exponent 971), and below
\* 2^-52 itself when the other is 0.0.
within_epsilon(a, b) ==
    LET exponent(w) == w[53] + 2 * w[54] + 4 * w[55] + 8 * w[56] + 16 * w[57]
                           + 32 * w[58] + 64 * w[59] + 128 * w[60] + 256 * w[61]
                           + 512 * w[62] + 1024 * w[63]
        larger == IF exponent(a) >= exponent(b) THEN exponent(a) ELSE exponent(b)
        smaller == IF exponent(a) >= exponent(b) THEN exponent(b) ELSE exponent(a)
    IN  a = b \/ (IF smaller = 0 THEN larger < 971 ELSE larger <= 971)

RECURSIVE Value_merge(_, _)
RECURSIVE Table_merge(_, _)
RECURSIVE merge_fields(_, _, _)
RECURSIVE merge_pairs(_, _, _)

\* for (field_a, field_b) in a.iter().zip(b.iter()) { name check; merge; push }
merge_fields(a, b, i) ==
    IF i > Len(a) THEN Ok(<<>>)
    ELSE IF a[i].name # b[i].name THEN Err("StructureMismatch", "Field name mismatch")
    ELSE LET v == Value_merge(a[i].value, b[i].value)
         IN  IF ~v.ok THEN v
             ELSE LET rest == merge_fields(a, b, i + 1)
                  IN  IF ~rest.ok THEN rest
                      ELSE Ok(<<[name |-> a[i].name, value |-> v.val]>> \o rest.val)

\* for (new_key, new_value) in b { match merged_pairs.iter_mut().find(..) }
merge_pairs(merged_pairs, b, i) ==
    IF i > Len(b) THEN Ok(merged_pairs)
    ELSE LET found == {k \in 1..Len(merged_pairs) : merged_pairs[k][1] = b[i][1]}
         IN  IF found = {} THEN merge_pairs(Append(merged_pairs, b[i]), b, i + 1)
             ELSE LET v == Value_merge(merged_pairs[Least(found)][2], b[i][2])
                  IN  IF ~v.ok THEN v
                      ELSE merge_pairs([merged_pairs EXCEPT ![Least(found)] = <<@[1], v.val>>],
                                       b, i + 1)

\* Value::merge
Value_merge(a, b) ==
    IF a.kind # b.kind
    THEN Err("StructureMismatch", "Cannot merge values of different types")
    ELSE IF a.kind = "Unit" THEN Ok(UnitValue)
    ELSE IF a.kind = "Int"
    THEN IF a.n = b.n THEN Ok(a) ELSE Err("InvalidValue", "int")
    ELSE IF a.kind = "Double"
    THEN IF within_epsilon(a.bits, b.bits) THEN Ok(a) ELSE Err("InvalidValue", "double")
    ELSE IF a.kind = "Binary"
    THEN IF a.bytes = b.bytes THEN Ok(a) ELSE Err("InvalidValue", "binary")
    ELSE IF a.kind = "Array" THEN Ok([kind |-> "Array", items |-> a.items \o b.items])
    ELSE IF a.kind = "Struct"
    THEN IF Len(a.fields) # Len(b.fields)
         THEN Err("StructureMismatch", "Cannot merge structs with different field counts")
         ELSE LET merged_fields == merge_fields(a.fields, b.fields, 1)
              IN  IF ~merged_fields.ok THEN merged_fields
                  ELSE Ok([kind |-> "Struct", fields |-> merged_fields.val])
    ELSE IF a.kind = "Enum"
    THEN IF a.tag # b.tag THEN Err("InvalidValue", "enum")
         ELSE LET merged_value == Value_merge(a.value, b.value)
              IN  IF ~merged_value.ok THEN merged_value
                  ELSE Ok([kind |-> "Enum", tag |-> a.tag, value |-> merged_value.val])
    ELSE IF a.kind = "Nested"
    THEN LET merged_table == Table_merge(a.table, b.table)
         IN  IF ~merged_table.ok THEN merged_table
             ELSE Ok([kind |-> "Nested", table |-> merged_table.val])
    ELSE LET merged_inner == Value_merge(a.inner, b.inner)
         IN  IF ~merged_inner.ok THEN merged_inner
             ELSE Ok([kind |-> "Reversed", inner |-> merged_inner.val])

\* Table::merge
Table_merge(a, b) ==
    IF a.kind # b.kind
    THEN Err("StructureMismatch", "Cannot merge tables of different types")
    ELSE IF a.kind = "Binary"
    THEN IF a.bytes = b.bytes THEN Ok(a)
         ELSE Err("StructureMismatch", "Cannot merge different binary values")
    ELSE IF a.kind = "Array" THEN Ok([kind |-> "Array", items |-> a.items \o b.items])
    ELSE LET merged_pairs == merge_pairs(a.pairs, b.pairs, 1)
         IN  IF ~merged_pairs.ok THEN merged_pairs
             ELSE Ok([kind |-> "Map", pairs |-> merged_pairs.val])

(***************************************************************************)
(* Merging: three operands of one type, values or tables, merged pairwise  *)
(* and then in both groupings.  The doubles are 0.0, 2^-53 and 2^-52; the  *)
(* maps have up to MaxPairs pairs each and may repeat a key.               *)
(***************************************************************************)
MaxPairs == 2

MergeOperands ==
    LET int(n) == IntValue(W(n))
        double(bits) == [kind |-> "Double", bits |-> bits]
        \* The bits of 2^e: the biased exponent e + 1023 in bits 52..62.
        power(e) == Shl(W(e + 1023), 52)
        array(vs) == [kind |-> "Array", items |-> vs]
        struct(n, v) == [kind |-> "Struct", fields |-> <<[name |-> n, value |-> v]>>]
        enum(t, v) == [kind |-> "Enum", tag |-> t, value |-> v]
        primitives == {UnitValue, int(1), int(2),
                       double(ZeroWord), double(power(-53)), double(power(-52)),
                       [kind |-> "Binary", bytes |-> <<>>],
                       [kind |-> "Binary", bytes |-> <<65>>]}
        tables == {[kind |-> "Binary", bytes |-> <<>>], [kind |-> "Binary", bytes |-> <<65>>],
                   [kind |-> "Array", items |-> <<>>], [kind |-> "Array", items |-> <<int(1)>>],
                   [kind |-> "Array", items |-> <<int(2)>>]}
                      \cup {[kind |-> "Map", pairs |-> ps] :
                                ps \in SeqsUpTo({<<int(1), array(<<int(1)>>)>>,
                                                 <<int(1), array(<<int(2)>>)>>}, MaxPairs)
                                           \cup {<<<<int(2), array(<<int(1)>>)>>>>}}
        composites == {array(<<>>), array(<<int(1)>>), array(<<int(2)>>),
                       struct(NameA, int(1)), struct(NameA, int(2)),
                       struct(NameB, int(1)), struct(NameA, array(<<int(1)>>)),
                       [kind |-> "Struct", fields |-> <<>>],
                       enum(0, int(1)), enum(1, int(1)), enum(0, array(<<int(2)>>)),
                       [kind |-> "Reversed", inner |-> int(1)],
                       [kind |-> "Reversed", inner |-> array(<<int(1)>>)],
                       [kind |-> "Nested", table |-> [kind |-> "Array", items |-> <<int(1)>>]],
                       [kind |-> "Nested", table |-> [kind |-> "Binary", bytes |-> <<65>>]]}
        triples(r, S) == {[receiver |-> r, operands |-> <<a, b, c>>] : a, b, c \in S}
    IN  triples("Value", primitives \cup composites) \cup triples("Table", tables)

InitMerge ==
    /\ fault = None
    /\ pc = "have_operands"
    /\ overflow_checks \in BOOLEAN
    /\ raw = None
    /\ coded = None
    /\ decoded = None
    /\ schema = None
    /\ logical = None
    /\ verdict = None
    /\ \E o \in MergeOperands : algorithm = o.receiver /\ values = o.operands

\* As merge, but of two integers the first one wins.
merge_first_wins(a, b) ==
    IF ~a.ok THEN a
    ELSE IF ~b.ok THEN b
    ELSE IF algorithm = "Table" THEN Table_merge(a.val, b.val)
    ELSE IF a.val.kind = "Int" /\ b.val.kind = "Int" THEN a
    ELSE Value_merge(a.val, b.val)

\* a.merge(&b) of Value or of Table, or the error that stands for a.
merge(a, b) ==
    IF ~a.ok THEN a
    ELSE IF ~b.ok THEN b
    ELSE IF algorithm = "Table" THEN Table_merge(a.val, b.val)
    ELSE Value_merge(a.val, b.val)

\* values[1].merge(&values[2])
Merge ==
    /\ pc = "have_operands"
    /\ coded' = merge(Ok(values[1]), Ok(values[2]))
    /\ pc' = "merged"
    /\ UNCHANGED <<overflow_checks, fault, values, raw, algorithm, decoded, validationVars>>

\* values[1].merge(&values[2])?.merge(&values[3])
MergeLeft ==
    /\ pc = "merged"
    /\ decoded = None
    /\ decoded' = merge(coded, Ok(values[3]))
    /\ UNCHANGED <<pc, overflow_checks, fault, values, raw, algorithm, coded, validationVars>>

\* values[1].merge(&values[2].merge(&values[3])?)
MergeRight ==
    /\ pc = "merged"
    /\ verdict = None
    /\ verdict' = merge(Ok(values[1]), merge(Ok(values[2]), Ok(values[3])))
    /\ UNCHANGED <<pc, overflow_checks, fault, codecVars, schema, logical>>

NextMerge ==
    \/ Merge
    \/ MergeLeft
    \/ MergeRight

SpecMerge == InitMerge /\ [][NextMerge]_vars

C23_MergeAssociativity ==
    (pc = "merged" /\ decoded # None /\ verdict # None)
        => /\ decoded.ok <=> verdict.ok
           /\ decoded.ok => decoded = verdict

(***************************************************************************)
(* striped.rs: the columnar representation.  A striped Table is            *)
(*   [kind |-> "Binary", default, encoding, data],                         *)
(*   [kind |-> "Array", default, column] or                                *)
(*   [kind |-> "Map", default, key_column, value_column];                  *)
(* a Column is [kind |-> "Unit", count], [kind |-> "Int", default,         *)
(* encoding, values], [kind |-> "Double", default, values],                *)
(* [kind |-> "Binary", default, encoding, lengths, data],                  *)
(* [kind |-> "Array", default, lengths, element],                          *)
(* [kind |-> "Struct", default, fields] with FieldColumns [name, column],  *)
(* [kind |-> "Enum", default, tags, variants] with VariantColumns          *)
(* [name, tag, column], [kind |-> "Nested", lengths, table] or             *)
(* [kind |-> "Reversed", inner].                                           *)
(***************************************************************************)
\* As Flatten, but only the last of the sequences is kept.
Flatten_last(ss) == IF ss = <<>> THEN <<>> ELSE ss[Len(ss)]

RECURSIVE Flatten(_)
Flatten(ss) == IF ss = <<>> THEN <<>> ELSE Head(ss) \o Flatten(Tail(ss))

RECURSIVE Column_from_values(_, _)
RECURSIVE Table_from_logical(_, _)
RECURSIVE field_columns(_, _, _)
RECURSIVE variant_columns(_, _, _)

\* As field_columns, but a row's i-th field is taken for the i-th schema field.
field_columns_by_position(field_schemas, vs, i) ==
    IF i > Len(field_schemas) THEN Ok(<<>>)
    ELSE LET fname == field_schemas[i].name
             bad == {j \in 1..Len(vs) : IF vs[j].kind = "Struct" THEN Len(vs[j].fields) < i
                                        ELSE TRUE}
         IN  IF bad # {}
             THEN IF vs[Least(bad)].kind # "Struct" THEN TypeMismatch("struct")
                  ELSE MissingField(fname)
             ELSE LET field_values == [j \in 1..Len(vs) |-> vs[j].fields[i].value]
                      c == Column_from_values(field_schemas[i].schema, field_values)
                  IN  IF ~c.ok THEN c
                      ELSE LET rest == field_columns(field_schemas, vs, i + 1)
                           IN  IF rest.ok
                               THEN Ok(<<[name |-> fname, column |-> c.val]>> \o rest.val)
                               ELSE rest

\* for field_schema in fields { for value in values { find by name } from_values }
field_columns(field_schemas, vs, i) ==
    IF i > Len(field_schemas) THEN Ok(<<>>)
    ELSE LET fname == field_schemas[i].name
             named(j) == {k \in 1..Len(vs[j].fields) : vs[j].fields[k].name = fname}
             bad == {j \in 1..Len(vs) : IF vs[j].kind = "Struct" THEN named(j) = {} ELSE TRUE}
         IN  IF bad # {}
             THEN IF vs[Least(bad)].kind # "Struct" THEN TypeMismatch("struct")
                  ELSE MissingField(fname)
             ELSE LET field_values == [j \in 1..Len(vs) |-> vs[j].fields[Least(named(j))].value]
                      c == Column_from_values(field_schemas[i].schema, field_values)
                  IN  IF ~c.ok THEN c
                      ELSE LET rest == field_columns(field_schemas, vs, i + 1)
                           IN  IF rest.ok
                               THEN Ok(<<[name |-> fname, column |-> c.val]>> \o rest.val)
                               ELSE rest

\* for (i, variant_schema) in variants.iter().enumerate() { from_values(.., &variant_data[i]) }
variant_columns(variants, vs, i) ==
    IF i > Len(variants) THEN Ok(<<>>)
    ELSE LET mine == SelectSeq(vs, LAMBDA v : position_of_tag(variants, v.tag, 1) = i)
             variant_data == [j \in 1..Len(mine) |-> mine[j].value]
             c == Column_from_values(variants[i].schema, variant_data)
         IN  IF ~c.ok THEN c
             ELSE LET rest == variant_columns(variants, vs, i + 1)
                  IN  IF rest.ok
                      THEN Ok(<<[name |-> variants[i].name, tag |-> variants[i].tag,
                                 column |-> c.val]>> \o rest.val)
                      ELSE rest

Column_from_values(s, vs) ==
    LET n == Len(vs)
        other(k) == \E i \in 1..n : vs[i].kind # k
    IN  IF s.kind = "Unit" THEN Ok([kind |-> "Unit", count |-> n])
        ELSE IF s.kind = "Int"
        THEN IF other("Int") THEN TypeMismatch("int")
             ELSE Ok([kind |-> "Int", default |-> s.default, encoding |-> s.encoding,
                      values |-> [i \in 1..n |-> vs[i].n]])
        ELSE IF s.kind = "Double"
        THEN IF other("Double") THEN TypeMismatch("double")
             ELSE Ok([kind |-> "Double", default |-> s.default,
                      values |-> [i \in 1..n |-> vs[i].bits]])
        ELSE IF s.kind = "Binary"
        THEN IF other("Binary") THEN TypeMismatch("binary")
             ELSE Ok([kind |-> "Binary", default |-> s.default, encoding |-> s.encoding,
                      lengths |-> [i \in 1..n |-> Len(vs[i].bytes)],
                      data |-> Flatten([i \in 1..n |-> vs[i].bytes])])
        ELSE IF s.kind = "Array"
        THEN IF other("Array") THEN TypeMismatch("array")
             ELSE LET c == Column_from_values(s.element, Flatten([i \in 1..n |-> vs[i].items]))
                  IN  IF ~c.ok THEN c
                      ELSE Ok([kind |-> "Array", default |-> s.default,
                               lengths |-> [i \in 1..n |-> Len(vs[i].items)],
                               element |-> c.val])
        ELSE IF s.kind = "Struct"
        THEN IF s.fields = <<>> THEN UnsupportedType("Empty structs are not supported")
             ELSE LET r == field_columns(s.fields, vs, 1)
                  IN  IF ~r.ok THEN r
                      ELSE Ok([kind |-> "Struct", default |-> s.default, fields |-> r.val])
        ELSE IF s.kind = "Enum"
        THEN LET bad == {i \in 1..n : IF vs[i].kind = "Enum"
                                      THEN position_of_tag(s.variants, vs[i].tag, 1) = 0
                                      ELSE TRUE}
             IN  IF bad # {}
                 THEN IF vs[Least(bad)].kind # "Enum" THEN TypeMismatch("enum")
                      ELSE UnsupportedTag(vs[Least(bad)].tag)
                 ELSE LET r == variant_columns(s.variants, vs, 1)
                      IN  IF ~r.ok THEN r
                          ELSE Ok([kind |-> "Enum", default |-> s.default,
                                   tags |-> [i \in 1..n |-> vs[i].tag], variants |-> r.val])
        ELSE IF s.kind = "Nested"
        THEN IF other("Nested") THEN TypeMismatch("nested")
             ELSE LET k == s.table.kind
                      rows(t) == IF t.kind = "Array" THEN t.items
                                 ELSE IF t.kind = "Map" THEN t.pairs ELSE t.bytes
                      all == Flatten([i \in 1..n |-> rows(vs[i].table)])
                      merged_table == IF k = "Binary" THEN [kind |-> k, bytes |-> all]
                                      ELSE IF k = "Array" THEN [kind |-> k, items |-> all]
                                      ELSE [kind |-> k, pairs |-> all]
                  IN  IF \E i \in 1..n : vs[i].table.kind # k
                      THEN TypeMismatch(IF k = "Binary" THEN "binary table"
                                        ELSE IF k = "Array" THEN "array table" ELSE "map table")
                      ELSE LET t == Table_from_logical(s.table, merged_table)
                           IN  IF ~t.ok THEN t
                               ELSE Ok([kind |-> "Nested",
                                        lengths |-> [i \in 1..n |-> Len(rows(vs[i].table))],
                                        table |-> t.val])
        ELSE IF other("Reversed") THEN TypeMismatch("reversed")
        ELSE LET c == Column_from_values(s.inner, [i \in 1..n |-> vs[i].inner])
             IN  IF ~c.ok THEN c ELSE Ok([kind |-> "Reversed", inner |-> c.val])

Table_from_logical(s, t) ==
    IF s.kind = "Binary" /\ t.kind = "Binary"
    THEN Ok([kind |-> "Binary", default |-> s.default, encoding |-> s.encoding,
             data |-> t.bytes])
    ELSE IF s.kind = "Array" /\ t.kind = "Array"
    THEN LET c == Column_from_values(s.element, t.items)
         IN  IF ~c.ok THEN c
             ELSE Ok([kind |-> "Array", default |-> s.default, column |-> c.val])
    ELSE IF s.kind = "Map" /\ t.kind = "Map"
    THEN LET key_column == Column_from_values(s.key, [i \in 1..Len(t.pairs) |-> t.pairs[i][1]])
             value_column ==
                 Column_from_values(s.value, [i \in 1..Len(t.pairs) |-> t.pairs[i][2]])
         IN  IF ~key_column.ok THEN key_column
             ELSE IF ~value_column.ok THEN value_column
             ELSE Ok([kind |-> "Map", default |-> s.default,
                      key_column |-> key_column.val, value_column |-> value_column.val])
    ELSE TypeMismatch(s.kind)

RECURSIVE Column_row_count(_)
RECURSIVE Column_to_values(_)
RECURSIVE Table_to_logical(_)
RECURSIVE split_by_lengths(_, _, _, _, _)
RECURSIVE all_to_values(_, _)

\* Column::row_count; indexing fields[0] of a struct column without fields panics.
Column_row_count(c) ==
    IF c.kind = "Unit" THEN Ok(c.count)
    ELSE IF c.kind \in {"Int", "Double"} THEN Ok(Len(c.values))
    ELSE IF c.kind \in {"Binary", "Array", "Nested"} THEN Ok(Len(c.lengths))
    ELSE IF c.kind = "Struct"
    THEN IF c.fields = <<>> THEN Err("panic", "Struct columns must have at least one field")
         ELSE Column_row_count(c.fields[1].column)
    ELSE IF c.kind = "Enum" THEN Ok(Len(c.tags))
    ELSE Column_row_count(c.inner)

\* As Table_row_count, but a Binary table has as many rows as bytes.
Table_row_count_bytes(t) ==
    IF t.kind = "Binary" THEN Ok(Len(t.data))
    ELSE IF t.kind = "Array" THEN Column_row_count(t.column)
    ELSE Column_row_count(t.key_column)

Table_row_count(t) ==
    IF t.kind = "Binary" THEN Ok(IF t.data = <<>> THEN 0 ELSE 1)
    ELSE IF t.kind = "Array" THEN Column_row_count(t.column)
    ELSE Column_row_count(t.key_column)

\* As split_by_lengths, but the final offset is the end of the items whatever
\* the lengths took.
split_by_lengths_lenient(lengths, items, i, offset, m) ==
    IF i > Len(lengths) THEN [ok |-> TRUE, val |-> <<>>, offset |-> Len(items)]
    ELSE IF offset + lengths[i] > Len(items) THEN Err("VectorOperationFailed", m)
    ELSE LET rest == split_by_lengths(lengths, items, i + 1, offset + lengths[i], m)
         IN  IF ~rest.ok THEN rest
             ELSE [ok |-> TRUE, offset |-> rest.offset,
                   val |-> <<SubSeq(items, offset + 1, offset + lengths[i])>> \o rest.val]

\* As split_by_lengths, but the offset stays where it was after a slice.
split_by_lengths_in_place(lengths, items, i, offset, m) ==
    IF i > Len(lengths) THEN [ok |-> TRUE, val |-> <<>>, offset |-> offset]
    ELSE IF offset + lengths[i] > Len(items) THEN Err("VectorOperationFailed", m)
    ELSE LET rest == split_by_lengths(lengths, items, i + 1, offset, m)
         IN  IF ~rest.ok THEN rest
             ELSE [ok |-> TRUE, offset |-> rest.offset + lengths[i],
                   val |-> <<SubSeq(items, offset + 1, offset + lengths[i])>> \o rest.val]

\* for &length in lengths { if offset + length > len { Err } slice; offset += length }
\* The result carries the slices and the final offset.
split_by_lengths(lengths, items, i, offset, m) ==
    IF i > Len(lengths) THEN [ok |-> TRUE, val |-> <<>>, offset |-> offset]
    ELSE IF offset + lengths[i] > Len(items) THEN Err("VectorOperationFailed", m)
    ELSE LET rest == split_by_lengths(lengths, items, i + 1, offset + lengths[i], m)
         IN  IF ~rest.ok THEN rest
             ELSE [ok |-> TRUE, offset |-> rest.offset,
                   val |-> <<SubSeq(items, offset + 1, offset + lengths[i])>> \o rest.val]

\* variant.column.to_values()? for every member in order: the first error, or
\* the sequence of the value vectors.
all_to_values(members, i) ==
    IF i > Len(members) THEN Ok(<<>>)
    ELSE LET r == Column_to_values(members[i].column)
         IN  IF ~r.ok THEN r
             ELSE LET rest == all_to_values(members, i + 1)
                  IN  IF rest.ok THEN Ok(<<r.val>> \o rest.val) ELSE rest

Column_to_values(c) ==
    IF c.kind = "Unit" THEN Ok([i \in 1..c.count |-> UnitValue])
    ELSE IF c.kind = "Int" THEN Ok([i \in 1..Len(c.values) |-> IntValue(c.values[i])])
    ELSE IF c.kind = "Double"
    THEN Ok([i \in 1..Len(c.values) |-> [kind |-> "Double", bits |-> c.values[i]]])
    ELSE IF c.kind = "Binary"
    THEN LET r == split_by_lengths(c.lengths, c.data, 1, 0, "Binary data length mismatch")
         IN  IF ~r.ok THEN r
             ELSE IF r.offset # Len(c.data)
             THEN Err("VectorOperationFailed", "Binary data length mismatch")
             ELSE Ok([i \in 1..Len(r.val) |-> [kind |-> "Binary", bytes |-> r.val[i]]])
    ELSE IF c.kind = "Array"
    THEN LET element_values == Column_to_values(c.element)
         IN  IF ~element_values.ok THEN element_values
             ELSE LET r == split_by_lengths(c.lengths, element_values.val, 1, 0,
                                            "Array element length mismatch")
                  IN  IF ~r.ok THEN r
                      ELSE IF r.offset # Len(element_values.val)
                      THEN Err("VectorOperationFailed", "Array element length mismatch")
                      ELSE Ok([i \in 1..Len(r.val) |-> [kind |-> "Array", items |-> r.val[i]]])
    ELSE IF c.kind = "Struct"
    THEN LET row_count == Column_row_count(c)
             m == "Struct field row count mismatch"
             \* The first field, in order, that fails in row `row`.
             failing(vals, row) == {k \in 1..Len(vals) : Len(vals[k]) < row}
             field_values == all_to_values(c.fields, 1)
             first_row ==
                 \* Row 0 converts the fields in order and stops at the first
                 \* that fails to convert or that has no row.
                 LET probe[k \in 1..(Len(c.fields) + 1)] ==
                         IF k > Len(c.fields) THEN OkUnit
                         ELSE LET r == Column_to_values(c.fields[k].column)
                              IN  IF ~r.ok THEN r
                                  ELSE IF r.val = <<>> THEN Err("VectorOperationFailed", m)
                                  ELSE probe[k + 1]
                 IN  probe[1]
         IN  IF ~row_count.ok THEN row_count
             ELSE IF row_count.val = 0 THEN Ok(<<>>)
             ELSE IF ~first_row.ok THEN first_row
             ELSE IF failing(field_values.val, row_count.val) # {}
             THEN Err("VectorOperationFailed", m)
             ELSE Ok([row \in 1..row_count.val |->
                         [kind |-> "Struct",
                          fields |-> [k \in 1..Len(c.fields) |->
                                         [name |-> c.fields[k].name,
                                          value |-> field_values.val[k][row]]]]])
    ELSE IF c.kind = "Enum"
    THEN LET variant_values == all_to_values(c.variants, 1)
             missing == {i \in 1..Len(c.tags) : position_of_tag(c.variants, c.tags[i], 1) = 0}
             \* transposed_values[row_idx][variant_idx]: the variant's value at
             \* the ROW's index, Value::Unit past the variant's end.
             cell(row, k) == IF row <= Len(variant_values.val[k])
                             THEN variant_values.val[k][row]
                             ELSE UnitValue
         IN  IF ~variant_values.ok THEN variant_values
             ELSE IF missing # {} THEN UnsupportedTag(c.tags[Least(missing)])
             ELSE Ok([row \in 1..Len(c.tags) |->
                         [kind |-> "Enum", tag |-> c.tags[row],
                          value |-> cell(row, position_of_tag(c.variants, c.tags[row], 1))]])
    ELSE IF c.kind = "Nested"
    THEN LET table_logical == Table_to_logical(c.table)
         IN  IF ~table_logical.ok THEN table_logical
             ELSE LET t == table_logical.val
                      r == IF t.kind = "Binary"
                           THEN split_by_lengths(c.lengths, t.bytes, 1, 0,
                                                 "Binary nested table length mismatch")
                           ELSE IF t.kind = "Array"
                           THEN split_by_lengths(c.lengths, t.items, 1, 0,
                                                 "Array nested table length mismatch")
                           ELSE split_by_lengths(c.lengths, t.pairs, 1, 0,
                                                 "Map nested table length mismatch")
                      nested(rows) == IF t.kind = "Binary" THEN [kind |-> "Binary", bytes |-> rows]
                                      ELSE IF t.kind = "Array"
                                      THEN [kind |-> "Array", items |-> rows]
                                      ELSE [kind |-> "Map", pairs |-> rows]
                  IN  IF ~r.ok THEN r
                      ELSE Ok([i \in 1..Len(r.val) |->
                                  [kind |-> "Nested", table |-> nested(r.val[i])]])
    ELSE LET inner_values == Column_to_values(c.inner)
         IN  IF ~inner_values.ok THEN inner_values
             ELSE Ok([i \in 1..Len(inner_values.val) |->
                         [kind |-> "Reversed", inner |-> inner_values.val[i]]])

\* As Table_to_logical, but ColumnMismatch names the values first.
Table_to_logical_swapped(t) ==
    IF t.kind = "Binary" THEN Ok([kind |-> "Binary", bytes |-> t.data])
    ELSE IF t.kind = "Array"
    THEN LET r == Column_to_values(t.column)
         IN  IF ~r.ok THEN r ELSE Ok([kind |-> "Array", items |-> r.val])
    ELSE LET keys == Column_to_values(t.key_column)
             vals == Column_to_values(t.value_column)
         IN  IF ~keys.ok THEN keys
             ELSE IF ~vals.ok THEN vals
             ELSE IF Len(keys.val) # Len(vals.val)
             THEN [ok |-> FALSE, err |-> "ColumnMismatch",
                   expected |-> Len(vals.val), actual |-> Len(keys.val)]
             ELSE Ok([kind |-> "Map",
                      pairs |-> [i \in 1..Len(keys.val) |-> <<keys.val[i], vals.val[i]>>]])

Table_to_logical(t) ==
    IF t.kind = "Binary" THEN Ok([kind |-> "Binary", bytes |-> t.data])
    ELSE IF t.kind = "Array"
    THEN LET r == Column_to_values(t.column)
         IN  IF ~r.ok THEN r ELSE Ok([kind |-> "Array", items |-> r.val])
    ELSE LET keys == Column_to_values(t.key_column)
             vals == Column_to_values(t.value_column)
         IN  IF ~keys.ok THEN keys
             ELSE IF ~vals.ok THEN vals
             ELSE IF Len(keys.val) # Len(vals.val)
             THEN [ok |-> FALSE, err |-> "ColumnMismatch",
                   expected |-> Len(keys.val), actual |-> Len(vals.val)]
             ELSE Ok([kind |-> "Map",
                      pairs |-> [i \in 1..Len(keys.val) |-> <<keys.val[i], vals.val[i]>>]])

\* The columns of a striped table or column: the column itself and every
\* column below it, through elements, fields, variants, nested tables and
\* reversed columns.
RECURSIVE ColumnsOf(_)
ColumnsOf(n) ==
    IF "column" \in DOMAIN n THEN ColumnsOf(n.column)
    ELSE IF "key_column" \in DOMAIN n
    THEN ColumnsOf(n.key_column) \cup ColumnsOf(n.value_column)
    ELSE IF n.kind = "Binary" /\ "lengths" \notin DOMAIN n THEN {}
    ELSE {n} \cup (IF n.kind = "Array" THEN ColumnsOf(n.element)
                   ELSE IF n.kind = "Struct"
                   THEN UNION {ColumnsOf(n.fields[i].column) : i \in 1..Len(n.fields)}
                   ELSE IF n.kind = "Enum"
                   THEN UNION {ColumnsOf(n.variants[i].column) : i \in 1..Len(n.variants)}
                   ELSE IF n.kind = "Nested" THEN ColumnsOf(n.table)
                   ELSE IF n.kind = "Reversed" THEN ColumnsOf(n.inner)
                   ELSE {})

(***************************************************************************)
(* Striping: logical tables to columns and back.                           *)
(***************************************************************************)
RECURSIVE ValuesOf(_)
RECURSIVE TablesOf(_, _)

\* A few values that match the value schema s; inner arrays and nested tables
\* have up to two rows.
ValuesOf(s) ==
    IF s.kind = "Unit" THEN {UnitValue}
    ELSE IF s.kind = "Int" THEN {IntValue(W(1)), IntValue(OnesWord)}
    ELSE IF s.kind = "Double" THEN {[kind |-> "Double", bits |-> ZeroWord]}
    ELSE IF s.kind = "Binary" THEN {[kind |-> "Binary", bytes |-> bs] : bs \in {<<>>, <<65, 66>>}}
    ELSE IF s.kind = "Array"
    THEN {[kind |-> "Array", items |-> vs] : vs \in SeqsUpTo(ValuesOf(s.element), 2)}
    ELSE IF s.kind = "Struct"
    THEN LET choices == {f \in [1..Len(s.fields) -> UNION {ValuesOf(s.fields[i].schema) :
                                                              i \in 1..Len(s.fields)}] :
                             \A i \in 1..Len(s.fields) : f[i] \in ValuesOf(s.fields[i].schema)}
         IN  {[kind |-> "Struct",
               fields |-> [i \in 1..Len(s.fields) |->
                              [name |-> s.fields[i].name, value |-> f[i]]]] : f \in choices}
    ELSE IF s.kind = "Enum"
    THEN UNION {{[kind |-> "Enum", tag |-> s.variants[i].tag, value |-> v] :
                     v \in ValuesOf(s.variants[i].schema)} : i \in 1..Len(s.variants)}
    ELSE IF s.kind = "Nested"
    THEN {[kind |-> "Nested", table |-> t] : t \in TablesOf(s.table, 2)}
    ELSE {[kind |-> "Reversed", inner |-> v] : v \in ValuesOf(s.inner)}

\* The tables of up to n rows over those values.
TablesOf(s, n) ==
    IF s.kind = "Binary"
    THEN {[kind |-> "Binary", bytes |-> bs] : bs \in {<<>>, <<65>>, <<0, 0, 0>>, Run(0, MaxRun)}}
    ELSE IF s.kind = "Array"
    THEN {[kind |-> "Array", items |-> vs] : vs \in SeqsUpTo(ValuesOf(s.element), n)}
    ELSE {[kind |-> "Map", pairs |-> ps] :
              ps \in SeqsUpTo(ValuesOf(s.key) \X ValuesOf(s.value), n)}

StripedSchemas ==
    LET int == IntSchema("Int")
        utf8 == BinarySchema("Utf8")
        variant(n, t, x) == [name |-> n, tag |-> t, schema |-> x]
        field(n, x) == [name |-> n, schema |-> x]
        ElementSchemas ==
        {UnitSchema, int, DoubleSchema, utf8,
         ArraySchema(utf8),
         StructSchema(<<field(NameA, int), field(NameB, utf8)>>),
         StructSchema(<<field(NameB, int), field(NameA, int)>>),
         StructSchema(<<field(NameB, utf8), field(NameA, int)>>),
         StructSchema(<<field(NameA, int)>>),
         StructSchema(<<field(NameA, int), field(NameA, utf8)>>),
         StructSchema(<<>>),
         EnumSchema(<<variant(NameA, 0, int), variant(NameB, 1, int)>>),
         EnumSchema(<<variant(NameA, 1, UnitSchema), variant(NameB, 0, utf8)>>),
         ArraySchema(EnumSchema(<<variant(NameA, 0, int), variant(NameB, 1, UnitSchema)>>)),
         [kind |-> "Nested", table |-> ArraySchema(int)],
         [kind |-> "Nested", table |-> BinarySchema("Binary")],
         [kind |-> "Nested", table |-> MapSchema(int, UnitSchema)],
         [kind |-> "Reversed", inner |-> int]}
    IN  {BinarySchema("Binary")}
            \cup {ArraySchema(x) : x \in ElementSchemas}
            \cup {MapSchema(IntSchema("Date"), x) : x \in {UnitSchema, utf8}}

InitStriped ==
    /\ fault = None
    /\ pc = "have_logical"
    /\ overflow_checks \in BOOLEAN
    /\ values = None
    /\ raw = None
    /\ algorithm = None
    /\ coded = None
    /\ decoded = None
    /\ verdict = None
    /\ schema \in StripedSchemas
    /\ logical \in UNION {TablesOf(s, MaxRows) : s \in StripedSchemas}

\* striped::Table::from_logical(&schema, &logical)
FromLogical ==
    /\ pc = "have_logical"
    /\ coded' = Table_from_logical(schema, logical)
    /\ pc' = "striped"
    /\ UNCHANGED <<overflow_checks, fault, values, raw, algorithm, decoded, validationVars>>

\* striped.to_logical()
ToLogical ==
    /\ pc = "striped"
    /\ coded.ok
    /\ decoded' = Table_to_logical(coded.val)
    /\ pc' = "unstriped"
    /\ UNCHANGED <<overflow_checks, fault, values, raw, algorithm, coded, validationVars>>

\* striped.row_count()
RowCount ==
    /\ pc \in {"striped", "unstriped"}
    /\ coded.ok
    /\ verdict = None
    /\ verdict' = Table_row_count(coded.val)
    /\ UNCHANGED <<pc, overflow_checks, fault, codecVars, schema, logical>>

NextStriped ==
    \/ FromLogical
    \/ ToLogical
    \/ RowCount

SpecStriped == InitStriped /\ [][NextStriped]_vars

\* C1: for every table schema S and every logical table t that matches S,
\* from_logical(S, t) succeeds and to_logical of the result equals t.  Stated
\* here for the schemas without empty or duplicated members only.
C1_StripedRoundTrip ==
    (/\ pc \in {"striped", "unstriped"}
     /\ \A n \in SchemaNodes(schema) : WellFormedNode(n)
     /\ Table_validate_schema(logical, schema).ok)
        => /\ coded.ok
           /\ pc = "unstriped" => decoded = Ok(logical)

\* C15: in the tree from_logical makes for a schema whose structs have
\* fields and whose enums have distinct tags, every column keeps its sums: a
\* Binary column's lengths add up to its data, an Array column's to the rows
\* of its element, a Nested column's to the length of its table; the fields
\* of a Struct have one row count; the tags of an Enum are tags of its
\* variants and each variant's column has as many rows as tags name it.
C15_TreeInvariants ==
    (/\ pc \in {"striped", "unstriped"}
     /\ \A n \in SchemaNodes(schema) :
            /\ n.kind = "Struct" => n.fields # <<>>
            /\ n.kind = "Enum" => \A i, j \in 1..Len(n.variants) :
                                      n.variants[i].tag = n.variants[j].tag => i = j
     /\ coded.ok)
        => \A c \in ColumnsOf(coded.val) :
               LET upto[i \in 0..Len(c.lengths)] ==
                       IF i = 0 THEN 0 ELSE upto[i - 1] + c.lengths[i]
                   sum == upto[Len(c.lengths)]
                   rows(x) == Column_row_count(x).val
                   named(t) == {i \in 1..Len(c.tags) : c.tags[i] = t}
               IN  /\ c.kind = "Binary" => sum = Len(c.data)
                   /\ c.kind = "Array" => sum = rows(c.element)
                   /\ c.kind = "Nested"
                          => sum = IF c.table.kind = "Binary" THEN Len(c.table.data)
                                   ELSE Table_row_count(c.table).val
                   /\ c.kind = "Struct"
                          => \A i \in 1..Len(c.fields) :
                                 rows(c.fields[i].column) = rows(c.fields[1].column)
                   /\ c.kind = "Enum"
                          => /\ \A i \in 1..Len(c.tags) :
                                    \E k \in 1..Len(c.variants) : c.variants[k].tag = c.tags[i]
                             /\ \A k \in 1..Len(c.variants) :
                                    rows(c.variants[k].column)
                                        = Cardinality(named(c.variants[k].tag))

\* An Array table of arrays of enums, striped: the Enum column has both tags
\* and the Array column above it two rows.
C15_Witness ==
    /\ pc = "striped"
    /\ coded.ok
    /\ coded.val.kind = "Array"
    /\ coded.val.column.kind = "Array"
    /\ Len(coded.val.column.lengths) = 2
    /\ coded.val.column.element.kind = "Enum"
    /\ coded.val.column.element.tags = <<1, 0, 0>>

\* C24: to_values of an Enum column that from_values made gives row i the
\* tag tags[i] and, as its value, the k-th value of the variant column with
\* that tag, k counting the rows up to i that carry the same tag.
C24_EnumCursor ==
    (pc \in {"striped", "unstriped"} /\ coded.ok)
        => \A c \in ColumnsOf(coded.val) :
               (c.kind = "Enum" /\ Column_to_values(c).ok)
                   => \A i \in 1..Len(c.tags) :
                          LET k == position_of_tag(c.variants, c.tags[i], 1)
                              cursor == Cardinality({j \in 1..i : c.tags[j] = c.tags[i]})
                              variant_values == Column_to_values(c.variants[k].column).val
                          IN  Column_to_values(c).val[i]
                                  = [kind |-> "Enum", tag |-> c.tags[i],
                                     value |-> variant_values[cursor]]

\* C25: from_values with a Struct schema takes, for each schema field in
\* schema order, the value of the first field of that name in every row,
\* wherever it stands in the row, and makes the field's column from these; a
\* row without a field of that name makes it fail with MissingField of the
\* name.  Stated for the rows of an Array table of structs.
C25_StructByName ==
    (/\ pc \in {"striped", "unstriped"}
     /\ schema.kind = "Array"
     /\ schema.element.kind = "Struct"
     /\ schema.element.fields # <<>>
     /\ logical.kind = "Array"
     /\ \A j \in 1..Len(logical.items) : logical.items[j].kind = "Struct")
        => LET fs == schema.element.fields
               rows == logical.items
               named(j, i) == {k \in 1..Len(rows[j].fields) : rows[j].fields[k].name = fs[i].name}
               missing(i) == \E j \in 1..Len(rows) : named(j, i) = {}
               column(i) == Column_from_values(fs[i].schema,
                                [j \in 1..Len(rows) |-> rows[j].fields[Least(named(j, i))].value])
               failing == {i \in 1..Len(fs) : IF missing(i) THEN TRUE ELSE ~column(i).ok}
           IN  IF failing = {}
               THEN /\ coded.ok
                    /\ coded.val.column.kind = "Struct"
                    /\ Len(coded.val.column.fields) = Len(fs)
                    /\ \A i \in 1..Len(fs) :
                           coded.val.column.fields[i]
                               = [name |-> fs[i].name, column |-> column(i).val]
               ELSE IF missing(Least(failing)) THEN coded = MissingField(fs[Least(failing)].name)
               ELSE coded = column(Least(failing))

\* Rows {b, a} striped under the schema {a: int, b: utf8}: the columns come
\* out in schema order.
C25_Witness ==
    /\ pc = "striped"
    /\ schema.kind = "Array"
    /\ schema.element = StructSchema(<<[name |-> NameA, schema |-> IntSchema("Int")],
                                       [name |-> NameB, schema |-> BinarySchema("Utf8")]>>)
    /\ logical.kind = "Array"
    /\ Len(logical.items) = 2
    /\ \A j \in 1..2 : /\ logical.items[j].kind = "Struct"
                        /\ Len(logical.items[j].fields) = 2
                        /\ logical.items[j].fields[1].name = NameB
    /\ coded.ok
    /\ coded.val.column.fields[1].name = NameA
    /\ coded.val.column.fields[1].column.values = <<W(1), OnesWord>>

\* Rows {a} striped under the schema {a: int, b: utf8}.
C25_WitnessMissing ==
    /\ pc = "striped"
    /\ logical.kind = "Array"
    /\ Len(logical.items) = 2
    /\ coded = MissingField(NameB)

C29_ValidatedTablesAreStriped ==
    (/\ pc \in {"striped", "unstriped"}
     /\ \A n \in SchemaNodes(schema) : n.kind = "Struct" => n.fields # <<>>
     /\ Table_validate_schema(logical, schema).ok)
        => coded.ok

(***************************************************************************)
(* Transposition of striped trees as they come, whether from_logical made  *)
(* them or not: the lengths of a column need not add up to what it holds,  *)
(* the columns of a Map or of a Struct need not have the same rows, a      *)
(* Struct may have no field and an Enum tags that no variant has.          *)
(***************************************************************************)
StripedTrees ==
    LET allow == "Allow"
        lengths == SeqsUpTo(0..MaxRows, MaxRows)
        unit == {[kind |-> "Unit", count |-> n] : n \in 0..MaxRows}
        int == {[kind |-> "Int", default |-> allow, values |-> ws,
                 encoding |-> [kind |-> "Int", sub |-> "Int"]] :
                    ws \in SeqsUpTo({W(1)}, MaxRows)}
        leaves == unit \cup int
        binary == {[kind |-> "Binary", default |-> allow, lengths |-> ls,
                    data |-> Run(65, n), encoding |-> [kind |-> "Binary", sub |-> "Binary"]] :
                       ls \in lengths, n \in 0..(MaxRows + 1)}
        array == {[kind |-> "Array", default |-> allow, lengths |-> ls, element |-> e] :
                      ls \in lengths, e \in leaves}
        struct == {[kind |-> "Struct", default |-> allow, fields |-> fs] :
                       fs \in SeqsUpTo({[name |-> NameA, column |-> c] : c \in leaves},
                                       MaxFields)}
        variant(t, c) == [name |-> NameA, tag |-> t, column |-> c]
        enum == {[kind |-> "Enum", default |-> allow, tags |-> ts, variants |-> vs] :
                     ts \in SeqsUpTo({0, 1}, MaxRows),
                     vs \in {<<>>} \cup {<<variant(0, c)>> : c \in unit}
                                \cup {<<variant(0, c[1]), variant(1, c[2])>> :
                                          c \in unit \X unit}}
        inner == {[kind |-> "Binary", default |-> allow, data |-> Run(65, n),
                   encoding |-> [kind |-> "Binary", sub |-> "Binary"]] : n \in 0..MaxRows}
                     \cup {[kind |-> "Array", default |-> allow, column |-> c] : c \in unit}
        nested == {[kind |-> "Nested", lengths |-> ls, table |-> t] :
                       ls \in lengths, t \in inner}
        reversed == {[kind |-> "Reversed", inner |-> c] :
                         c \in leaves \cup {[kind |-> "Struct", default |-> allow,
                                             fields |-> <<>>]}}
    IN  inner
            \cup {[kind |-> "Array", default |-> allow, column |-> c] :
                      c \in binary \cup array \cup struct \cup enum \cup nested \cup reversed}
            \cup {[kind |-> "Map", default |-> allow, key_column |-> k, value_column |-> v] :
                      k \in leaves, v \in leaves}

InitTrees ==
    /\ fault = None
    /\ pc = "striped"
    /\ overflow_checks \in BOOLEAN
    /\ values = None
    /\ raw = None
    /\ algorithm = None
    /\ decoded = None
    /\ schema = None
    /\ logical = None
    /\ verdict = None
    /\ \E t \in StripedTrees : coded = Ok(t)

NextTrees ==
    \/ ToLogical
    \/ RowCount

SpecTrees == InitTrees /\ [][NextTrees]_vars

\* Tables made by from_logical and trees as they come, together.
SpecTransposition == (InitStriped \/ InitTrees) /\ [][NextStriped]_vars

\* C30: to_logical fails on an Array table whose column is a Nested column
\* with lengths that do not add up to the length of its table (more or
\* less), a Struct column with a field of more or fewer rows than the first
\* field, or an Enum column with a variant whose rows are not as many as the
\* tags that name it.
C30_MalformedTreesFail ==
    (pc = "unstriped" /\ coded.val.kind = "Array")
        => LET c == coded.val.column
               upto[i \in 0..Len(c.lengths)] ==
                   IF i = 0 THEN 0 ELSE upto[i - 1] + c.lengths[i]
               rows(x) == Column_row_count(x).val
               named(t) == {i \in 1..Len(c.tags) : c.tags[i] = t}
               malformed ==
                   \/ /\ c.kind = "Nested"
                      /\ upto[Len(c.lengths)] # IF c.table.kind = "Binary" THEN Len(c.table.data)
                                                ELSE rows(c.table.column)
                   \/ /\ c.kind = "Struct"
                      /\ \E i \in 1..Len(c.fields) :
                             rows(c.fields[i].column) # rows(c.fields[1].column)
                   \/ /\ c.kind = "Enum"
                      /\ \E k \in 1..Len(c.variants) :
                             rows(c.variants[k].column) # Cardinality(named(c.variants[k].tag))
           IN  malformed => ~decoded.ok

\* C14: the row count of the table from_logical makes is the number of items
\* of an Array table, of pairs of a Map table, and 0 or 1 for an empty or
\* non-empty Binary table; and every column whose to_values succeeds has as
\* many rows as to_values returns values.
C14_RowCountInvariance ==
    (pc \in {"striped", "unstriped"} /\ coded.ok)
        => /\ (logical # None /\ verdict # None)
                  => verdict = Ok(IF logical.kind = "Array" THEN Len(logical.items)
                                  ELSE IF logical.kind = "Map" THEN Len(logical.pairs)
                                  ELSE IF logical.bytes = <<>> THEN 0 ELSE 1)
           /\ \A c \in ColumnsOf(coded.val) :
                  Column_to_values(c).ok
                      => Column_row_count(c) = Ok(Len(Column_to_values(c).val))

\* A Map table of two pairs whose values are structs, after from_logical,
\* to_logical and row_count.
C14_Witness ==
    /\ pc = "unstriped"
    /\ logical # None
    /\ logical.kind = "Map"
    /\ Len(logical.pairs) = 2
    /\ coded.ok
    /\ verdict = Ok(2)

\* C16: to_values of a Binary column whose lengths do not add up to its data,
\* and of an Array column whose lengths do not add up to the values of its
\* element, is VectorOperationFailed with a message that holds "length
\* mismatch", whether the lengths ask for more than there is or for less.
C16_ExactConsumption ==
    (pc = "unstriped" /\ coded.val.kind = "Array" /\ "lengths" \in DOMAIN coded.val.column)
        => LET c == coded.val.column
               upto[i \in 0..Len(c.lengths)] ==
                   IF i = 0 THEN 0 ELSE upto[i - 1] + c.lengths[i]
               sum == upto[Len(c.lengths)]
           IN  /\ (c.kind = "Binary" /\ sum # Len(c.data))
                      => decoded = Err("VectorOperationFailed", "Binary data length mismatch")
               /\ (c.kind = "Array" /\ sum # Len(Column_to_values(c.element).val))
                      => decoded = Err("VectorOperationFailed",
                                       "Array element length mismatch")

\* A Binary column that holds one byte more than its lengths ask for.
C16_Witness ==
    /\ pc = "unstriped"
    /\ logical = None
    /\ coded.val.kind = "Array"
    /\ coded.val.column.kind = "Binary"
    /\ coded.val.column.lengths = <<1, 0>>
    /\ Len(coded.val.column.data) = 2
    /\ ~decoded.ok

\* C17: to_logical of a Map table whose key column gives k values and whose
\* value column gives v values is ColumnMismatch {expected: k, actual: v}
\* when k # v, and otherwise the pairs of the i-th key and the i-th value.
C17_MapMismatch ==
    (pc = "unstriped" /\ coded.val.kind = "Map")
        => LET keys == Column_to_values(coded.val.key_column)
               vals == Column_to_values(coded.val.value_column)
           IN  (keys.ok /\ vals.ok)
                   => IF Len(keys.val) # Len(vals.val)
                      THEN decoded = [ok |-> FALSE, err |-> "ColumnMismatch",
                                      expected |-> Len(keys.val), actual |-> Len(vals.val)]
                      ELSE /\ decoded.ok
                           /\ Len(decoded.val.pairs) = Len(keys.val)
                           /\ \A i \in 1..Len(keys.val) :
                                  decoded.val.pairs[i] = <<keys.val[i], vals.val[i]>>

\* Two keys and one value.
C17_Witness ==
    /\ pc = "unstriped"
    /\ logical = None
    /\ coded.val.kind = "Map"
    /\ coded.val.key_column = [kind |-> "Unit", count |-> 2]
    /\ coded.val.value_column.kind = "Int"
    /\ Len(coded.val.value_column.values) = 1
    /\ decoded.err = "ColumnMismatch"

\* C18: to_logical and row_count of any striped tree, a Struct column without
\* fields included, return a value or a ConversionError and never panic.
C18_TranspositionTotal ==
    pc \in {"striped", "unstriped"}
        => /\ (decoded # None /\ ~decoded.ok) => decoded.err # "panic"
           /\ (verdict # None /\ ~verdict.ok) => verdict.err # "panic"

(***************************************************************************)
(* binary.rs: the container.  A BinaryFile is [header, blocks] with header *)
(* [schema, compression], compression [binary_data, strings] and blocks a  *)
(* sequence of [row_count, table].                                         *)
(***************************************************************************)
\* As MAGIC_NUMBER, of format version 2: "||_ZBRA||00002||".
MAGIC_NUMBER_00002 == <<124, 124, 95, 90, 66, 82, 65, 124, 124, 48, 48, 48, 48, 50, 124, 124>>

\* "||_ZBRA||00001||"
MAGIC_NUMBER == <<124, 124, 95, 90, 66, 82, 65, 124, 124, 48, 48, 48, 48, 49, 124, 124>>

\* CompressionConfig::default()
CompressionConfig_default == [binary_data |-> Zstd(3), strings |-> Zstd(3)]

IndexOf(xs, x) == CHOOSE i \in 1..Len(xs) : xs[i] = x

\* What a read leaves behind: the value and the position after it.
Read(v, p) == [ok |-> TRUE, val |-> v, pos |-> p]

\* r1 then r2, as two writes joined by `?`: the first error, or both outputs.
Then(r1, r2) ==
    IF ~r1.ok THEN r1 ELSE IF ~r2.ok THEN r2 ELSE Ok(r1.val \o r2.val)

\* Default::write_to followed, where the node has one, by Encoding::write_to.
write_default(node) == <<IF node.default = "Allow" THEN 0 ELSE 1>>

write_encoding(e) ==
    IF e.kind = "Int" THEN <<0, IndexOf(IntEncodings, e.sub) - 1>>
    ELSE <<1, IndexOf(BinaryEncodings, e.sub) - 1>>

write_string(name) == u32_to_le_bytes(Len(name)) \o name

write_sized_byte_array(bs) == u32_to_le_bytes(Len(bs)) \o u32_to_le_bytes(Len(bs)) \o bs

write_int_array_compressed(ws) ==
    LET frame(compressed) ==
            IF ~compressed.ok THEN compressed
            ELSE Ok(u32_to_le_bytes(Len(ws)) \o u32_to_le_bytes(Len(compressed.val))
                    \o compressed.val)
    IN  frame(compress_int_array(ws))

\* write_int_array_usize_compressed / write_u32_array_compressed: `v as i64`.
write_nat_array_compressed(ns) ==
    write_int_array_compressed([i \in 1..Len(ns) |-> W(ns[i])])

write_sized_byte_array_compressed(bs, alg) ==
    LET frame(compressed) ==
            IF ~compressed.ok THEN compressed
            ELSE Ok(u32_to_le_bytes(Len(bs)) \o u32_to_le_bytes(Len(compressed.val))
                    \o compressed.val)
    IN  frame(compress_binary(bs, alg))

RECURSIVE Column_write_to(_, _)
RECURSIVE Table_write_to(_, _)
RECURSIVE members_write_to(_, _, _)

\* for field in fields { field.write_to(..)? } and the same for variants, whose
\* tag follows their name.
members_write_to(ms, i, compression) ==
    IF i > Len(ms) THEN Ok(<<>>)
    ELSE LET head == write_string(ms[i].name)
                     \o (IF "tag" \in DOMAIN ms[i] THEN u32_to_le_bytes(ms[i].tag) ELSE <<>>)
         IN  Then(Then(Ok(head), Column_write_to(ms[i].column, compression)),
                  members_write_to(ms, i + 1, compression))

Column_write_to(c, compression) ==
    IF c.kind = "Unit" THEN Ok(<<0>> \o u32_to_le_bytes(c.count))
    ELSE IF c.kind = "Int"
    THEN Then(Ok(<<1>> \o write_default(c) \o write_encoding(c.encoding)),
              write_int_array_compressed(c.values))
    ELSE IF c.kind = "Double"
    THEN Then(Ok(<<2>> \o write_default(c)), write_int_array_compressed(c.values))
    ELSE IF c.kind = "Binary"
    THEN Then(Then(Ok(<<3>> \o write_default(c) \o write_encoding(c.encoding)),
                   write_nat_array_compressed(c.lengths)),
              write_sized_byte_array_compressed(c.data, compression.strings))
    ELSE IF c.kind = "Array"
    THEN Then(Then(Ok(<<4>> \o write_default(c)), write_nat_array_compressed(c.lengths)),
              Column_write_to(c.element, compression))
    ELSE IF c.kind = "Struct"
    THEN Then(Ok(<<5>> \o write_default(c) \o u32_to_le_bytes(Len(c.fields))),
              members_write_to(c.fields, 1, compression))
    ELSE IF c.kind = "Enum"
    THEN Then(Then(Ok(<<6>> \o write_default(c)), write_nat_array_compressed(c.tags)),
              Then(Ok(u32_to_le_bytes(Len(c.variants))),
                   members_write_to(c.variants, 1, compression)))
    ELSE IF c.kind = "Nested"
    THEN Then(Then(Ok(<<7>>), write_nat_array_compressed(c.lengths)),
              Table_write_to(c.table, compression))
    ELSE Then(Ok(<<8>>), Column_write_to(c.inner, compression))

Table_write_to(t, compression) ==
    IF t.kind = "Binary"
    THEN Then(Ok(<<0>> \o write_default(t) \o write_encoding(t.encoding)),
              write_sized_byte_array_compressed(t.data, compression.binary_data))
    ELSE IF t.kind = "Array"
    THEN Then(Ok(<<1>> \o write_default(t)), Column_write_to(t.column, compression))
    ELSE Then(Then(Ok(<<2>> \o write_default(t)), Column_write_to(t.key_column, compression)),
              Column_write_to(t.value_column, compression))

(***************************************************************************)
(* serde_json is a library outside the repository.  Its text is modelled   *)
(* by a prefix code that carries the same information in ASCII: one letter *)
(* per constructor, one digit per default, encoding, count, name length    *)
(* and tag; the parser rejects what the printer cannot have produced.      *)
(***************************************************************************)
Digit(n) == 48 + n

RECURSIVE schema_to_json(_)
schema_to_json(s) ==
    LET default == <<Digit(IF s.default = "Allow" THEN 0 ELSE 1)>>
        encoding == <<Digit(IF s.encoding.kind = "Int" THEN 0 ELSE 1),
                      Digit(IndexOf(IF s.encoding.kind = "Int" THEN IntEncodings
                                    ELSE BinaryEncodings, s.encoding.sub) - 1)>>
        member(x) == <<Digit(Len(x.name))>> \o x.name
                     \o (IF "tag" \in DOMAIN x THEN <<Digit(x.tag)>> ELSE <<>>)
                     \o schema_to_json(x.schema)
        members(ms) == <<Digit(Len(ms))>> \o Flatten([i \in 1..Len(ms) |-> member(ms[i])])
    IN  IF s.kind = "Unit" THEN <<85>>
        ELSE IF s.kind = "Int" THEN <<73>> \o default \o encoding
        ELSE IF s.kind = "Double" THEN <<68>> \o default
        ELSE IF s.kind = "Binary" THEN <<66>> \o default \o encoding
        ELSE IF s.kind = "Array" THEN <<65>> \o default \o schema_to_json(s.element)
        ELSE IF s.kind = "Struct" THEN <<83>> \o default \o members(s.fields)
        ELSE IF s.kind = "Enum" THEN <<69>> \o default \o members(s.variants)
        ELSE IF s.kind = "Nested" THEN <<78>> \o schema_to_json(s.table)
        ELSE IF s.kind = "Reversed" THEN <<82>> \o schema_to_json(s.inner)
        ELSE <<77>> \o default \o schema_to_json(s.key) \o schema_to_json(s.value)


RECURSIVE schema_from_json(_, _, _)
RECURSIVE members_from_json(_, _, _, _)

\* n fields (or, with_tag, variants) from position p on.
members_from_json(bs, p, n, with_tag) ==
    IF n = 0 THEN Read(<<>>, p)
    ELSE IF p + 1 > Len(bs) \/ bs[p + 1] < Digit(0) \/ p + 1 + (bs[p + 1] - Digit(0)) > Len(bs)
    THEN Err("DeserializationError", "expected a name")
    ELSE LET len == bs[p + 1] - Digit(0)
             name == SubSeq(bs, p + 2, p + 1 + len)
             q == p + 1 + len
             tagged == with_tag /\ q + 1 <= Len(bs) /\ bs[q + 1] >= Digit(0)
             push(x, rest) ==
                 IF ~rest.ok THEN rest
                 ELSE Read(<<IF with_tag
                             THEN [name |-> name, tag |-> bs[q + 1] - Digit(0),
                                   schema |-> x.val]
                             ELSE [name |-> name, schema |-> x.val]>> \o rest.val,
                           rest.pos)
             member(x) ==
                 IF ~x.ok THEN x ELSE push(x, members_from_json(bs, x.pos, n - 1, with_tag))
         IN  IF with_tag /\ ~tagged THEN Err("DeserializationError", "expected a tag")
             ELSE member(schema_from_json(bs, IF with_tag THEN q + 1 ELSE q, FALSE))

\* A value schema, or with is_table a table schema, from position p on.
schema_from_json(bs, p, is_table) ==
    LET bad == Err("DeserializationError", "unknown variant")
        c == bs[p + 1]
        has(n) == p + n <= Len(bs)
        default_ok == has(2) /\ bs[p + 2] \in {Digit(0), Digit(1)}
        default == IF bs[p + 2] = Digit(0) THEN "Allow" ELSE "Deny"
        subs == IF bs[p + 3] = Digit(0) THEN IntEncodings ELSE BinaryEncodings
        encoding_ok == /\ default_ok /\ has(4)
                       /\ bs[p + 3] \in {Digit(0), Digit(1)}
                       /\ bs[p + 4] - Digit(0) \in 0..(Len(subs) - 1)
        encoding == [kind |-> IF bs[p + 3] = Digit(0) THEN "Int" ELSE "Binary",
                     sub |-> subs[bs[p + 4] - Digit(0) + 1]]
        count_ok == default_ok /\ has(3) /\ bs[p + 3] >= Digit(0)
        array(x) ==
            IF ~x.ok THEN x
            ELSE Read([kind |-> "Array", default |-> default, element |-> x.val], x.pos)
        map_value(k, v) ==
            IF ~v.ok THEN v
            ELSE Read([kind |-> "Map", default |-> default, key |-> k.val,
                       value |-> v.val], v.pos)
        map(k) == IF ~k.ok THEN k ELSE map_value(k, schema_from_json(bs, k.pos, FALSE))
        struct(fs) ==
            IF ~fs.ok THEN fs
            ELSE Read([kind |-> "Struct", default |-> default, fields |-> fs.val], fs.pos)
        enum(vs) ==
            IF ~vs.ok THEN vs
            ELSE Read([kind |-> "Enum", default |-> default, variants |-> vs.val], vs.pos)
        nested(t) == IF ~t.ok THEN t ELSE Read([kind |-> "Nested", table |-> t.val], t.pos)
        reversed(x) ==
            IF ~x.ok THEN x ELSE Read([kind |-> "Reversed", inner |-> x.val], x.pos)
    IN  IF ~has(1) THEN Err("DeserializationError", "EOF while parsing a value")
        ELSE IF c = 66
        THEN IF encoding_ok
             THEN Read([kind |-> "Binary", default |-> default, encoding |-> encoding], p + 4)
             ELSE bad
        ELSE IF c = 65
        THEN IF default_ok THEN array(schema_from_json(bs, p + 2, FALSE)) ELSE bad
        ELSE IF is_table
        THEN IF c = 77 /\ default_ok THEN map(schema_from_json(bs, p + 2, FALSE)) ELSE bad
        ELSE IF c = 85 THEN Read(UnitSchema, p + 1)
        ELSE IF c = 73
        THEN IF encoding_ok
             THEN Read([kind |-> "Int", default |-> default, encoding |-> encoding], p + 4)
             ELSE bad
        ELSE IF c = 68
        THEN IF default_ok THEN Read([kind |-> "Double", default |-> default], p + 2) ELSE bad
        ELSE IF c = 83
        THEN IF count_ok
             THEN struct(members_from_json(bs, p + 3, bs[p + 3] - Digit(0), FALSE))
             ELSE bad
        ELSE IF c = 69
        THEN IF count_ok
             THEN enum(members_from_json(bs, p + 3, bs[p + 3] - Digit(0), TRUE))
             ELSE bad
        ELSE IF c = 78 THEN nested(schema_from_json(bs, p + 1, TRUE))
        ELSE IF c = 82 THEN reversed(schema_from_json(bs, p + 1, FALSE))
        ELSE bad

\* serde_json::to_string(&CompressionConfig) and its inverse.
config_to_json(compression) ==
    LET alg(a) == IF a.kind = "None" THEN <<78>> ELSE <<90, Digit(a.level)>>
    IN  alg(compression.binary_data) \o alg(compression.strings)

config_from_json(bs) ==
    LET alg(p) == IF p + 1 <= Len(bs) /\ bs[p + 1] = 78 THEN Read(CompressionNone, p + 1)
                  ELSE IF p + 2 <= Len(bs) /\ bs[p + 1] = 90 /\ bs[p + 2] >= Digit(0)
                  THEN Read(Zstd(bs[p + 2] - Digit(0)), p + 2)
                  ELSE Err("DeserializationError", "unknown variant")
        b == alg(0)
        t == alg(b.pos)
    IN  IF ~b.ok THEN b
        ELSE IF ~t.ok THEN t
        ELSE IF t.pos # Len(bs) THEN Err("DeserializationError", "trailing characters")
        ELSE Ok([binary_data |-> b.val, strings |-> t.val])

\* BinaryFile::new_with_compression: one block holding the table and its row
\* count (BinaryFile::new passes CompressionConfig::default()).
BinaryFile_new_with_compression(s, t, compression) ==
    LET file(row_count) ==
            IF ~row_count.ok THEN row_count
            ELSE Ok([header |-> [schema |-> s, compression |-> compression],
                     blocks |-> <<[row_count |-> row_count.val, table |-> t]>>])
    IN  file(Table_row_count(t))

RECURSIVE blocks_write_to(_, _, _)
\* As blocks_write_to, but the blocks are written last to first.
blocks_write_to_reversed(blocks, i, compression) ==
    IF i > Len(blocks) THEN Ok(<<>>)
    ELSE Then(blocks_write_to(blocks, i + 1, compression),
              Then(Ok(u32_to_le_bytes(blocks[i].row_count)),
                   Table_write_to(blocks[i].table, compression)))

blocks_write_to(blocks, i, compression) ==
    IF i > Len(blocks) THEN Ok(<<>>)
    ELSE Then(Then(Ok(u32_to_le_bytes(blocks[i].row_count)),
                   Table_write_to(blocks[i].table, compression)),
              blocks_write_to(blocks, i + 1, compression))

\* BinaryFile::to_bytes / write_to
BinaryFile_to_bytes(file) ==
    Then(Ok(MAGIC_NUMBER
            \o write_sized_byte_array(schema_to_json(file.header.schema))
            \o write_sized_byte_array(config_to_json(file.header.compression))
            \o u32_to_le_bytes(Len(file.blocks))),
         blocks_write_to(file.blocks, 1, file.header.compression))

\* reader.read_exact: n bytes from position p on, or an I/O error at the end.
read_exact(bs, p, n) ==
    IF p + n > Len(bs) THEN Err("IoError", "failed to fill whole buffer")
    ELSE Read(SubSeq(bs, p + 1, p + n), p + n)

read_u8(bs, p) ==
    LET r == read_exact(bs, p, 1) IN IF ~r.ok THEN r ELSE Read(r.val[1], r.pos)

read_u32(bs, p) ==
    LET r == read_exact(bs, p, 4) IN IF ~r.ok THEN r ELSE Read(u32_from_le_bytes(r.val), r.pos)

read_string(bs, p) ==
    LET len == read_u32(bs, p)
        buf == read_exact(bs, len.pos, len.val)
    IN  IF ~len.ok THEN len
        ELSE IF ~buf.ok THEN buf
        ELSE IF ~from_utf8_ok(buf.val)
        THEN Err("DeserializationError", "invalid utf-8 sequence")
        ELSE buf

\* The payload of a frame: two u32 sizes, of which the second is its length.
read_sized_byte_array(bs, p) ==
    LET uncompressed_size == read_u32(bs, p)
        compressed_size == read_u32(bs, uncompressed_size.pos)
    IN  IF ~uncompressed_size.ok THEN uncompressed_size
        ELSE IF ~compressed_size.ok THEN compressed_size
        ELSE read_exact(bs, compressed_size.pos, compressed_size.val)

\* The element count, then the compressed size and the compressed bytes: the
\* layout of a sized frame whose first size is the count.
read_int_array_compressed(bs, p) ==
    LET len == read_u32(bs, p)
        compressed == read_sized_byte_array(bs, p)
        array(ws) == IF ~ws.ok THEN ws ELSE Read(ws.val, compressed.pos)
    IN  IF ~len.ok THEN len
        ELSE IF ~compressed.ok THEN compressed
        ELSE array(decompress_int_array(compressed.val, len.val))

\* read_int_array_usize_compressed (bits == WordBits, `v as usize`) and
\* read_u32_array_compressed (bits == 32, `v as u32`).
read_nat_array_compressed(bs, p, bits) ==
    LET cast(ws) ==
            IF ~ws.ok THEN ws
            ELSE Read([i \in 1..Len(ws.val) |-> BitsToInt(ws.val[i], 1, bits)], ws.pos)
    IN  cast(read_int_array_compressed(bs, p))

read_sized_byte_array_compressed(bs, p, alg) ==
    LET compressed == read_sized_byte_array(bs, p)
        array(out) == IF ~out.ok THEN out ELSE Read(out.val, compressed.pos)
    IN  IF ~compressed.ok THEN compressed
        ELSE array(decompress_binary(compressed.val, alg))

\* As read_default, but every byte other than 0 reads as Deny.
read_default_lenient(bs, p) ==
    LET tag == read_u8(bs, p)
    IN  IF ~tag.ok THEN tag
        ELSE IF tag.val = 0 THEN Read("Allow", tag.pos)
        ELSE Read("Deny", tag.pos)

\* Default::read_from
read_default(bs, p) ==
    LET tag == read_u8(bs, p)
    IN  IF ~tag.ok THEN tag
        ELSE IF tag.val = 0 THEN Read("Allow", tag.pos)
        ELSE IF tag.val = 1 THEN Read("Deny", tag.pos)
        ELSE [ok |-> FALSE, err |-> "InvalidDefaultTag", tag |-> tag.val]

\* Encoding::read_from with IntEncoding::read_from and BinaryEncoding::read_from
read_encoding(bs, p) ==
    LET tag == read_u8(bs, p)
        sub == read_u8(bs, tag.pos)
        subs == IF tag.val = 0 THEN IntEncodings ELSE BinaryEncodings
    IN  IF ~tag.ok THEN tag
        ELSE IF tag.val \notin {0, 1}
        THEN [ok |-> FALSE, err |-> "InvalidEncodingTag", tag |-> tag.val]
        ELSE IF ~sub.ok THEN sub
        ELSE IF sub.val >= Len(subs)
        THEN [ok |-> FALSE, tag |-> sub.val,
              err |-> IF tag.val = 0 THEN "InvalidIntEncodingTag"
                      ELSE "InvalidBinaryEncodingTag"]
        ELSE Read([kind |-> IF tag.val = 0 THEN "Int" ELSE "Binary",
                   sub |-> subs[sub.val + 1]], sub.pos)

(***************************************************************************)
(* Every read_from below reads the parts of a node in order, each with `?`, *)
(* and builds the node from them.  A layout lists the parts, each the pair  *)
(* of the field it fills and the function that reads it.                    *)
(***************************************************************************)
\* Column::read_from: the arm of each tag, from 0 on.
ColumnLayouts ==
    <<[kind |-> "Unit", parts |-> <<<<"count", "u32">>>>],
      [kind |-> "Int", parts |-> <<<<"default", "default">>, <<"encoding", "encoding">>,
                                   <<"values", "int_array">>>>],
      [kind |-> "Double", parts |-> <<<<"default", "default">>,
                                      <<"values", "int_array">>>>],
      [kind |-> "Binary", parts |-> <<<<"default", "default">>,
                                      <<"encoding", "encoding">>,
                                      <<"lengths", "usize_array">>,
                                      <<"data", "strings">>>>],
      [kind |-> "Array", parts |-> <<<<"default", "default">>,
                                     <<"lengths", "usize_array">>,
                                     <<"element", "column">>>>],
      [kind |-> "Struct", parts |-> <<<<"default", "default">>,
                                      <<"fields", "fields">>>>],
      [kind |-> "Enum", parts |-> <<<<"default", "default">>, <<"tags", "u32_array">>,
                                    <<"variants", "variants">>>>],
      [kind |-> "Nested", parts |-> <<<<"lengths", "usize_array">>,
                                      <<"table", "table">>>>],
      [kind |-> "Reversed", parts |-> <<<<"inner", "column">>>>]>>

\* Table::read_from: the arm of each tag, from 0 on.
TableLayouts ==
    <<[kind |-> "Binary", parts |-> <<<<"default", "default">>,
                                      <<"encoding", "encoding">>,
                                      <<"data", "binary_data">>>>],
      [kind |-> "Array", parts |-> <<<<"default", "default">>,
                                     <<"column", "column">>>>],
      [kind |-> "Map", parts |-> <<<<"default", "default">>,
                                   <<"key_column", "column">>,
                                   <<"value_column", "column">>>>]>>

\* FieldColumn::read_from, VariantColumn::read_from and Block::read_from
MemberLayouts ==
    [fields |-> <<<<"name", "string">>, <<"column", "column">>>>,
     variants |-> <<<<"name", "string">>, <<"tag", "u32">>, <<"column", "column">>>>,
     blocks |-> <<<<"row_count", "u32">>, <<"table", "table">>>>]

RECURSIVE read_part(_, _, _, _)
RECURSIVE read_parts(_, _, _, _, _)
RECURSIVE read_rest(_, _, _, _, _)
RECURSIVE read_tagged(_, _, _, _, _)
RECURSIVE read_members(_, _, _, _, _)
RECURSIVE read_more(_, _, _, _, _, _)

\* The parts from position p on, added to the node built so far.
read_parts(bs, p, parts, node, compression) ==
    IF parts = <<>> THEN Read(node, p)
    ELSE read_rest(bs, read_part(bs, p, parts[1][2], compression), parts, node, compression)

\* `let field = read(reader)?;` and the parts after it.
read_rest(bs, r, parts, node, compression) ==
    IF ~r.ok THEN r
    ELSE read_parts(bs, r.pos, Tail(parts), node @@ (parts[1][1] :> r.val), compression)

\* match tag { .. _ => Err(invalid(tag)) }
read_tagged(bs, tag, layouts, invalid, compression) ==
    IF ~tag.ok THEN tag
    ELSE IF tag.val >= Len(layouts) THEN [ok |-> FALSE, err |-> invalid, tag |-> tag.val]
    ELSE read_parts(bs, tag.pos, layouts[tag.val + 1].parts,
                    [kind |-> layouts[tag.val + 1].kind], compression)

\* for _ in 0..count { members.push(read_from(reader, compression)?) }
read_members(bs, count, member, members, compression) ==
    IF ~count.ok THEN count
    ELSE IF count.val = 0 THEN Read(members, count.pos)
    ELSE read_more(bs, read_parts(bs, count.pos, MemberLayouts[member], <<>>, compression),
                   count.val - 1, member, members, compression)

\* The members after the one just read.
read_more(bs, r, n, member, members, compression) ==
    IF ~r.ok THEN r
    ELSE read_members(bs, Read(n, r.pos), member, Append(members, r.val), compression)

Column_read_from(bs, p, compression) ==
    read_tagged(bs, read_u8(bs, p), ColumnLayouts, "InvalidColumnTag", compression)

Table_read_from(bs, p, compression) ==
    read_tagged(bs, read_u8(bs, p), TableLayouts, "InvalidTableTag", compression)

read_part(bs, p, read, compression) ==
    IF read = "u32" THEN read_u32(bs, p)
    ELSE IF read = "string" THEN read_string(bs, p)
    ELSE IF read = "default" THEN read_default(bs, p)
    ELSE IF read = "encoding" THEN read_encoding(bs, p)
    ELSE IF read = "int_array" THEN read_int_array_compressed(bs, p)
    ELSE IF read = "usize_array" THEN read_nat_array_compressed(bs, p, WordBits)
    ELSE IF read = "u32_array" THEN read_nat_array_compressed(bs, p, 32)
    ELSE IF read = "strings"
    THEN read_sized_byte_array_compressed(bs, p, compression.strings)
    ELSE IF read = "binary_data"
    THEN read_sized_byte_array_compressed(bs, p, compression.binary_data)
    ELSE IF read = "column" THEN Column_read_from(bs, p, compression)
    ELSE IF read = "table" THEN Table_read_from(bs, p, compression)
    ELSE read_members(bs, read_u32(bs, p), read, <<>>, compression)

\* BinaryFile::from_bytes / read_from
BinaryFile_from_bytes(bs) ==
    LET magic == read_exact(bs, 0, Len(MAGIC_NUMBER))
        schema_bytes == read_sized_byte_array(bs, magic.pos)
        compression_bytes == read_sized_byte_array(bs, schema_bytes.pos)
        file(s, compression, blocks) ==
            IF ~blocks.ok THEN blocks
            ELSE Ok([header |-> [schema |-> s.val, compression |-> compression.val],
                     blocks |-> blocks.val])
        with_compression(s, compression) ==
            IF ~compression.ok THEN compression
            ELSE file(s, compression,
                      read_members(bs, read_u32(bs, compression_bytes.pos), "blocks",
                                   <<>>, compression.val))
        with_schema(s) ==
            IF ~s.ok THEN s
            ELSE IF s.pos # Len(schema_bytes.val)
            THEN Err("DeserializationError", "trailing characters")
            ELSE IF ~compression_bytes.ok THEN compression_bytes
            ELSE IF ~from_utf8_ok(compression_bytes.val)
            THEN Err("DeserializationError", "invalid utf-8 sequence")
            ELSE with_compression(s, config_from_json(compression_bytes.val))
    IN  IF ~magic.ok THEN magic
        ELSE IF magic.val # MAGIC_NUMBER THEN Err("InvalidMagicNumber", "")
        ELSE IF ~schema_bytes.ok THEN schema_bytes
        ELSE IF ~from_utf8_ok(schema_bytes.val)
        THEN Err("DeserializationError", "invalid utf-8 sequence")
        ELSE with_schema(schema_from_json(schema_bytes.val, 0, TRUE))

(***************************************************************************)
(* The container: a logical table is striped, written and read back.       *)
(***************************************************************************)
InitBinary ==
    /\ fault = None
    /\ pc = "have_logical"
    /\ overflow_checks \in BOOLEAN
    /\ values = None
    /\ raw = None
    /\ algorithm \in {CompressionConfig_default,
                      [binary_data |-> CompressionNone, strings |-> CompressionNone]}
    /\ coded = None
    /\ decoded = None
    /\ verdict = None
    /\ \E s \in StripedSchemas : schema = s /\ logical \in TablesOf(s, MaxRows)

\* BinaryFile::new_with_compression(schema, striped, config).to_bytes()
ToBytes ==
    /\ pc = "striped"
    /\ coded.ok
    /\ algorithm # None
    /\ LET file == BinaryFile_new_with_compression(schema, coded.val, algorithm)
       IN  raw' = IF file.ok THEN BinaryFile_to_bytes(file.val) ELSE file
    /\ pc' = "written"
    /\ UNCHANGED <<overflow_checks, fault, values, algorithm, coded, decoded, validationVars>>

\* BinaryFile::from_bytes(&bytes)
FromBytes ==
    /\ pc = "written"
    /\ raw.ok
    /\ decoded' = BinaryFile_from_bytes(raw.val)
    /\ pc' = "read"
    /\ UNCHANGED <<overflow_checks, fault, values, raw, algorithm, coded, validationVars>>

NextBinary ==
    \/ FromLogical
    \/ ToBytes
    \/ FromBytes

SpecBinary == InitBinary /\ [][NextBinary]_vars

\* C2: for every schema S, every T = from_logical(S, t) with t matching S and
\* both compression configurations, from_bytes(to_bytes(new(S, T))) succeeds,
\* its header schema is S and its block 0 is (T.row_count(), T).  Stated here
\* for the schemas without empty or duplicated members only.
C2_ContainerRoundTrip ==
    (/\ pc \in {"written", "read"}
     /\ \A n \in SchemaNodes(schema) : WellFormedNode(n)
     /\ Table_validate_schema(logical, schema).ok)
        => /\ raw.ok
           /\ pc = "read" =>
                  /\ decoded.ok
                  /\ decoded.val.header.schema = schema
                  /\ Len(decoded.val.blocks) = 1
                  /\ decoded.val.blocks[1] =
                         [row_count |-> Table_row_count(coded.val).val, table |-> coded.val]

(***************************************************************************)
(* The block loop.  A file is made by BinaryFile::new /                    *)
(* new_with_compression from a table, or put together with any number of   *)
(* blocks, whose row counts need not be those of their tables; it is       *)
(* written and read back.                                                  *)
(***************************************************************************)
MaxBlocks == 2

InitBlocks ==
    LET int == [kind |-> "Int", default |-> "Allow", values |-> <<W(1), W(1000)>>,
                encoding |-> [kind |-> "Int", sub |-> "Int"]]
        tables == {[kind |-> "Binary", default |-> "Allow", data |-> <<65>>,
                    encoding |-> [kind |-> "Binary", sub |-> "Binary"]],
                   [kind |-> "Array", default |-> "Allow",
                    column |-> [kind |-> "Unit", count |-> 3]],
                   [kind |-> "Array", default |-> "Deny", column |-> int],
                   [kind |-> "Map", default |-> "Allow", key_column |-> int,
                    value_column |-> [kind |-> "Unit", count |-> 2]]}
        blocks == {b \in {[row_count |-> n, table |-> t] : n \in {0, 7}, t \in tables} :
                       b.row_count = 7 \/ b.table.kind = "Binary"}
        configs == {CompressionConfig_default,
                    [binary_data |-> CompressionNone, strings |-> CompressionNone]}
    IN  /\ fault = None
        /\ overflow_checks \in BOOLEAN
        /\ raw = None
        /\ decoded = None
        /\ logical = None
        /\ verdict = None
        /\ schema = ArraySchema(UnitSchema)
        /\ \/ /\ pc = "have_table"
              /\ values \in tables
              /\ algorithm \in configs \cup {None}
              /\ coded = None
           \/ /\ pc = "have_file"
              /\ values = None
              /\ algorithm \in configs
              /\ \E bs \in SeqsUpTo(blocks, MaxBlocks) :
                     coded = Ok([header |-> [schema |-> schema, compression |-> algorithm],
                                 blocks |-> bs])

\* BinaryFile::new(schema, table) when no configuration is given, and
\* BinaryFile::new_with_compression(schema, table, config)
NewFile ==
    /\ pc = "have_table"
    /\ coded' = BinaryFile_new_with_compression(
                    schema, values,
                    IF algorithm = None THEN CompressionConfig_default ELSE algorithm)
    /\ pc' = "have_file"
    /\ UNCHANGED <<overflow_checks, fault, values, raw, algorithm, decoded, validationVars>>

\* file.to_bytes()
WriteFile ==
    /\ pc = "have_file"
    /\ coded.ok
    /\ raw' = BinaryFile_to_bytes(coded.val)
    /\ pc' = "written"
    /\ UNCHANGED <<overflow_checks, fault, values, algorithm, coded, decoded, validationVars>>

NextBlocks ==
    \/ NewFile
    \/ WriteFile
    \/ FromBytes

SpecBlocks == InitBlocks /\ [][NextBlocks]_vars

MaxDepth == 2

ReaderInputs ==
    LET u32(n) == u32_to_le_bytes(n)
        input(bs, f) == [bytes |-> bs, fault |-> f]
        plain == [binary_data |-> CompressionNone, strings |-> CompressionNone]
        \* Files as the writer makes them: a Map table of a Struct column and
        \* an Array column of Enums, and an Array table of a Nested column,
        \* under both compression configurations.
        int == [kind |-> "Int", default |-> "Allow", values |-> <<W(1), W(1000)>>,
                encoding |-> [kind |-> "Int", sub |-> "Date"]]
        text == [kind |-> "Binary", default |-> "Deny", lengths |-> <<2, 0>>,
                 data |-> <<65, 66>>, encoding |-> [kind |-> "Binary", sub |-> "Utf8"]]
        double == [kind |-> "Double", default |-> "Allow", values |-> <<ZeroWord>>]
        struct == [kind |-> "Struct", default |-> "Allow",
                   fields |-> <<[name |-> NameA, column |-> int],
                                [name |-> NameB, column |-> text]>>]
        enum == [kind |-> "Enum", default |-> "Allow", tags |-> <<0, 1>>,
                 variants |-> <<[name |-> NameA, tag |-> 0,
                                 column |-> [kind |-> "Unit", count |-> 1]],
                                [name |-> NameB, tag |-> 1,
                                 column |-> [kind |-> "Reversed", inner |-> double]]>>]
        tables ==
            {[kind |-> "Map", default |-> "Allow", key_column |-> struct,
              value_column |-> [kind |-> "Array", default |-> "Allow",
                                lengths |-> <<1, 1>>, element |-> enum]],
             [kind |-> "Array", default |-> "Allow",
              column |-> [kind |-> "Nested", lengths |-> <<1, 2>>,
                          table |-> [kind |-> "Binary", default |-> "Allow",
                                     encoding |-> [kind |-> "Binary", sub |-> "Binary"],
                                     data |-> <<65, 66, 67>>]]]}
        \* The inputs, given the bytes the writer makes of the schema, of the
        \* two configurations, of the lengths <<1>> and of the files.
        inputs(json, plain_json, default_json, lengths, intact) ==
            LET schema_frame(declared) == u32(declared) \o u32(Len(json)) \o json
                \* After the magic number: the header, the block count and the
                \* row count of the only block.
                head(config) ==
                    u32(Len(json)) \o u32(Len(json)) \o json
                        \o u32(Len(config)) \o u32(Len(config)) \o config
                        \o u32(1) \o u32(1)
                unit == <<0>> \o u32(1)
                \* The bytes of a table, or of a column, up to the column it
                \* holds: an Array table or a Map table's value; an Array, a
                \* Struct (its second field), an Enum, a Reversed or, through
                \* an Array table, a Nested column.  A Nested column holds a
                \* table.
                in_table == {<<1, 0>>, <<2, 0>> \o unit}
                nested == <<7>> \o lengths
                in_column ==
                    {<<4, 0>> \o lengths,
                     <<5, 0>> \o u32(2) \o u32(1) \o NameA \o unit \o u32(1) \o NameB,
                     <<6, 0>> \o lengths \o u32(1) \o u32(1) \o NameA \o u32(1),
                     <<8>>,
                     nested \o <<1, 0>>}
                column_at[d \in 0..MaxDepth] ==
                    IF d = 0 THEN in_table
                    ELSE column_at[d - 1]
                             \cup {h \o c : h \in column_at[d - 1], c \in in_column}
                table_at == {<<>>} \cup {h \o nested : h \in column_at[MaxDepth - 1]}
                \* A node that ends in a byte t no tag of its kind has, at the
                \* end of the input or before more bytes.
                tag(err, bs, t) ==
                    input(bs \o <<t>> \o (IF t = 255 THEN <<>> ELSE <<0, 0, 0, 0, 0>>),
                          [kind |-> "tag", err |-> err, tag |-> t])
                column_faults ==
                    {tag("InvalidColumnTag", <<>>, 9), tag("InvalidColumnTag", <<>>, 255),
                     tag("InvalidDefaultTag", <<1>>, 2), tag("InvalidDefaultTag", <<5>>, 255),
                     tag("InvalidEncodingTag", <<1, 1>>, 2),
                     tag("InvalidIntEncodingTag", <<1, 0, 0>>, 5),
                     tag("InvalidBinaryEncodingTag", <<3, 0, 1>>, 2)}
                table_faults ==
                    {tag("InvalidTableTag", <<>>, t) : t \in {3, 255}}
                        \cup {tag("InvalidDefaultTag", <<k>>, t) : k \in 0..2, t \in {2, 255}}
                        \cup {tag("InvalidEncodingTag", <<0, 0>>, 2),
                              tag("InvalidIntEncodingTag", <<0, 1, 0>>, 255),
                              tag("InvalidBinaryEncodingTag", <<0, 0, 1>>, 2)}
                tagged ==
                    {input(MAGIC_NUMBER \o head(plain_json) \o h[1] \o h[2].bytes,
                           h[2].fault) :
                         h \in (column_at[MaxDepth] \X column_faults)
                                   \cup (table_at \X table_faults)}
                \* The files, cut at every length.
                cut(f) == {input(SubSeq(f, 1, n),
                                 [kind |-> "truncated", cut |-> Len(f) - n]) :
                               n \in 0..Len(f)}
                \* Sixteen bytes that are not the magic number (one byte
                \* changed, the next version, zeros), alone or before what a
                \* file goes on with.
                other_magic == {[MAGIC_NUMBER EXCEPT ![k] = (@ + 1) % 256] :
                                    k \in 1..Len(MAGIC_NUMBER)}
                                   \cup {<<124, 124, 95, 90, 66, 82, 65, 124, 124,
                                           48, 48, 48, 48, 50, 124, 124>>,
                                         Run(0, Len(MAGIC_NUMBER))}
                magic == {input(m \o rest[1] \o rest[2], [kind |-> "magic"]) :
                              m \in other_magic,
                              rest \in {<<<<>>, <<>>>>, <<<<255>>, <<>>>>}
                                           \cup ({head(plain_json)}
                                                     \X {<<>>, <<1, 0>> \o unit})}
                \* An Array table of an Int column that declares `declared`
                \* values before the payload of fewer.
                counted ==
                    {input(MAGIC_NUMBER \o c[3] \o <<1, 0, 1, 0, 0, 0>> \o u32(c[1])
                               \o u32(Len(c[2])) \o c[2],
                           [kind |-> "count", declared |-> c[1], held |-> c[4]]) :
                         c \in UNION {{<<Len(ws) + more, compress_int_array(ws).val,
                                         head(plain_json), Len(ws)>> :
                                           more \in 0..MaxLen} :
                                          ws \in {<<W(1)>>, <<W(1), W(1000)>>,
                                                  <<OnesWord, ZeroWord, I64Max>>}}}
                \* The schema frame, and the data frame of a Binary table,
                \* under a declared uncompressed size.
                framed ==
                    {input(MAGIC_NUMBER \o schema_frame(declared)
                               \o u32(Len(plain_json)) \o u32(Len(plain_json))
                               \o plain_json \o u32(1) \o u32(1) \o <<1, 0>> \o unit,
                           [kind |-> "frame", frame |-> "schema", declared |-> declared,
                            held |-> Len(json)]) :
                         declared \in 0..(Len(json) + 1)}
                        \cup {input(MAGIC_NUMBER \o d[1] \o <<0, 0, 1, 0>> \o u32(d[4])
                                        \o u32(Len(d[2])) \o d[2],
                                    [kind |-> "frame", frame |-> "data",
                                     declared |-> d[4], held |-> Len(d[3]),
                                     data |-> d[3]]) :
                                  d \in UNION {{<<head(c[2][2]),
                                                  compress_binary(c[1], c[2][1]).val,
                                                  c[1], declared>> :
                                                    declared \in 0..4} :
                                                   c \in {<<>>, <<65>>, <<65, 66, 67>>}
                                                       \X {<<CompressionNone, plain_json>>,
                                                           <<Zstd(3), default_json>>}}}
            IN  tagged \cup UNION {cut(f) : f \in intact} \cup magic
                    \cup counted \cup framed
    IN  inputs(schema_to_json(ArraySchema(UnitSchema)),
               config_to_json(plain), config_to_json(CompressionConfig_default),
               write_nat_array_compressed(<<1>>).val,
               {BinaryFile_to_bytes(
                    [header |-> [schema |-> ArraySchema(UnitSchema), compression |-> c],
                     blocks |-> <<[row_count |-> 2, table |-> t]>>]).val :
                    t \in tables, c \in {plain, CompressionConfig_default}})

InitReader ==
    /\ pc = "written"
    /\ overflow_checks \in BOOLEAN
    /\ values = None
    /\ algorithm = None
    /\ coded = None
    /\ decoded = None
    /\ schema = None
    /\ logical = None
    /\ verdict = None
    /\ \E i \in ReaderInputs : raw = Ok(i.bytes) /\ fault = i.fault

NextReader == FromBytes

SpecReader == InitReader /\ [][NextReader]_vars

\* C12: from_bytes returns InvalidMagicNumber whenever the input has sixteen
\* bytes and they are not "||_ZBRA||00001||", whatever follows them: nothing,
\* bytes that are no frame, or the rest of a file.
C12_MagicCheck ==
    (/\ pc = "read"
     /\ Len(raw.val) >= 16
     /\ SubSeq(raw.val, 1, 16) # <<124, 124, 95, 90, 66, 82, 65, 124, 124,
                                   48, 48, 48, 48, 49, 124, 124>>)
        => decoded = [ok |-> FALSE, err |-> "InvalidMagicNumber", msg |-> ""]

\* The input is the magic number of the next version and one byte, too short
\* for a schema frame: the answer is InvalidMagicNumber, not an I/O error.
C12_Witness ==
    /\ pc = "read"
    /\ fault = [kind |-> "magic"]
    /\ Len(raw.val) = 17
    /\ raw.val[14] = 50
    /\ decoded.err = "InvalidMagicNumber"

\* C13: a tag byte that no tag of its kind has is answered with the error of
\* its kind carrying the byte: InvalidTableTag (outside 0..2),
\* InvalidColumnTag (outside 0..8), InvalidDefaultTag (outside 0..1),
\* InvalidEncodingTag, InvalidIntEncodingTag, InvalidBinaryEncodingTag.  The
\* error of a node at any depth is the result of from_bytes, unchanged.
C13_TagErrors ==
    (pc = "read" /\ fault.kind = "tag")
        => decoded = [ok |-> FALSE, err |-> fault.err, tag |-> fault.tag]

\* The column tag 9 in the variant of an Enum column that is the element of an
\* Array column of an Array table: three nodes deep.
C13_Witness ==
    /\ pc = "read"
    /\ fault = [kind |-> "tag", err |-> "InvalidColumnTag", tag |-> 9]
    /\ LET lengths == write_nat_array_compressed(<<1>>).val
           nodes == <<1, 0>> \o <<4, 0>> \o lengths
                        \o <<6, 0>> \o lengths \o u32_to_le_bytes(1)
                        \o write_string(NameA) \o u32_to_le_bytes(1)
                        \o <<9, 0, 0, 0, 0, 0>>
       IN  /\ Len(raw.val) > Len(nodes)
           /\ SubSeq(raw.val, Len(raw.val) - Len(nodes) + 1, Len(raw.val)) = nodes
    /\ decoded = [ok |-> FALSE, err |-> "InvalidColumnTag", tag |-> 9]

\* C19: from_bytes returns Ok or a BinaryError for every input: no input
\* (a file cut short, a packed integer payload shorter than the declared
\* count needs, length fields that disagree) makes it panic or take an
\* unsigned counter below zero.
C19_ReaderTotal ==
    pc = "read" => (decoded.ok \/ decoded.err # "panic")

\* C20: the reader honors both length fields of a sized frame: the bytes it
\* returns are as many as the frame's uncompressed length says, and a frame
\* whose payload decodes to another length is an error.
C20_SizedFrames ==
    (pc = "read" /\ fault.kind = "frame")
        => /\ fault.declared # fault.held => ~decoded.ok
           /\ (decoded.ok /\ fault.frame = "data")
                  => Len(decoded.val.blocks[1].table.data) = fault.declared

====
